---- MODULE Spec2Model ----
(***************************************************************************)
(* Model of the frost verification framework (verif/): the cocotb driver   *)
(* coroutines (random regression, directed LR/SC test, compressed test,    *)
(* InstructionExecutor), the software memory model with its memory-write   *)
(* monitor, and the expected-value queues they share.                       *)
(*                                                                         *)
(* Scheduling: cocotb is cooperative.  A coroutine runs from one await to  *)
(* the next without interruption; ClockEdge advances the simulation to the *)
(* next clock edge once every coroutine is suspended.  The DUT is external:*)
(* what a monitor samples at a rising edge is an input of the monitor step.*)
(*                                                                         *)
(* A 32-bit value is a pair <<high half, low half>> of 16-bit numbers, so  *)
(* that 0xDEADBEEF and the mask 0xFFFFFFFF stay inside TLC's integers.     *)
(*                                                                         *)
(* The pure functions (instruction encoders, compressed encoders, the      *)
(* memory model as a data type, the floating-point model, the aligned      *)
(* immediate generator) are checked under their own specifications: the    *)
(* initial states hold the arguments of one call and the actions apply the *)
(* function.                                                               *)
(***************************************************************************)
EXTENDS Integers, Sequences, FiniteSets, TLC

\* ------------------------------------------------------------------ bounds
\* config.num_loops of the random regression
MaxLoops == 5
\* config.reset_cycles
ResetCycles == 1
\* number of InstructionExecutor calls of the free-form client
MaxExecCalls == 4
\* cycle budget of the final drain phase
MaxDrainCycles == 2

\* ------------------------------------------------------- program constants
PIPELINE_DEPTH == 6
FLUSH_CYCLES == 3
MIN_COVERAGE_COUNT == 1
Half == 256 * 256

\* ------------------------------------------------------------ 32-bit words
W(h, l) == <<h, l>>

Zero32 == W(0, 0)

\* (w + n) & MASK32 for a small non-negative n
AddMask32(w, n) ==
    LET s == w[2] + n
    IN  <<(w[1] + (s \div Half)) % Half, s % Half>>

\* w & ~0x3
AlignWord(w) == <<w[1], w[2] - (w[2] % 4)>>

NUM_REGISTERS == 32

Regs == 0 .. (NUM_REGISTERS - 1)

\* --------------------------------------------------------------- MemoryModel
\* ram_bytes maps a masked byte address to a byte; an absent key reads as 0.
\* The DUT memory the constructor copies is taken to be all zero.
\* address & MEMORY_WORD_ALIGN_MASK
MemWordAlign(a) == <<a[1], a[2] - (a[2] % 4)>>

\* address & MEMORY_ADDRESS_MASK: the key of ram_bytes
MemKey(a) == a[2]

\* the bytes of a word stored most significant first
ByteOfBigEndian(v, i) ==
    CASE i = 3 -> v[2] % 256
      [] i = 2 -> v[2] \div 256
      [] i = 1 -> v[1] % 256
      [] i = 0 -> v[1] \div 256

\* value & 0xFF, (value >> 8) & 0xFF, (value >> 16) & 0xFF, value >> 24 (masked
\* by write_byte)
ByteOf(v, i) ==
    CASE i = 0 -> v[2] % 256
      [] i = 1 -> v[2] \div 256
      [] i = 2 -> v[1] % 256
      [] i = 3 -> v[1] \div 256

read_byte(ram, a) == IF MemKey(a) \in DOMAIN ram THEN ram[MemKey(a)] ELSE 0

write_byte(ram, a, b) ==
    [k \in (DOMAIN ram) \cup {MemKey(a)} |->
        IF k = MemKey(a) THEN b % 256 ELSE ram[k]]

read_word(ram, a) ==
    LET al == MemWordAlign(a)
    IN  << read_byte(ram, AddMask32(al, 2)) + 256 * read_byte(ram, AddMask32(al, 3)),
           read_byte(ram, al) + 256 * read_byte(ram, AddMask32(al, 1)) >>

write_word(ram, a, v) ==
    LET al == MemWordAlign(a)
        r0 == write_byte(ram, al, ByteOf(v, 0))
        r1 == write_byte(r0, AddMask32(al, 1), ByteOf(v, 1))
        r2 == write_byte(r1, AddMask32(al, 2), ByteOf(v, 2))
    IN  write_byte(r2, AddMask32(al, 3), ByteOf(v, 3))

\* ---------------------------------------------------------------- the state
VARIABLES
    test,               \* which test coroutine drives: random, directed, compressed, executor
    result,             \* running, passed, failed
    fail_reason,
    clk,                \* level of i_clk after the last edge
    clock_started,
    i_rst,
    o_vld,              \* DUT retires an instruction at this rising edge (o_vld, o_pc_vld)
    dwait,              \* driver: run (executing), ready (resumed, not yet run), rise, fall
    dpc,                \* driver position
    runnable,           \* monitors to resume in the current time step
    mon,                \* position of each monitor coroutine
    loop_i,             \* loop counter of the driver's current loop
    reset_left,
    drain_cycles,
    instruction,        \* dut_if.instruction: mnemonic last written
    register_file_current,
    register_file_previous,
    program_counter_current,
    reservation,
    flush_remaining,
    branch_taken_current,
    register_file_current_expected_queue,
    program_counter_expected_values_queue,
    memory_write_address_expected_queue,
    memory_write_data_expected_queue,
    ram_bytes,
    instr_params,       \* last result of the random generator
    cur,                \* operation, rd, rs1, rs2, imm, offset of this iteration
    expected_pc,
    coverage,
    hist                \* history (ghost) record: counters and last events

clock_vars == <<clk, clock_started, i_rst, o_vld>>
sched_vars == <<dwait, dpc, runnable, mon>>
loop_vars  == <<loop_i, reset_left, drain_cycles>>
reg_vars   == <<register_file_current, register_file_previous, program_counter_current>>
flush_vars == <<flush_remaining, branch_taken_current>>
rfpc_queues == <<register_file_current_expected_queue, program_counter_expected_values_queue>>
mw_queues  == <<memory_write_address_expected_queue, memory_write_data_expected_queue>>
iter_vars  == <<instr_params, cur, expected_pc, coverage>>

vars == <<test, result, fail_reason, clock_vars, sched_vars, loop_vars, instruction,
          reg_vars, reservation, flush_vars, rfpc_queues, mw_queues, ram_bytes,
          iter_vars, hist>>

Monitors == {"mem", "rf", "pc"}

Instr(op, rd, rs1, rs2, imm, offset) ==
    [op |-> op, rd |-> rd, rs1 |-> rs1, rs2 |-> rs2, imm |-> imm, offset |-> offset]

\* addi x0, x0, 0
NopParams == Instr("addi", 0, 0, 0, 0, 0)

ZeroRegfile == [r \in Regs |-> Zero32]

Mnemonics == {"addi", "sw", "beq", "jal", "csrrs"}

HistInit ==
    [ issued      |-> 0,      \* instructions driven together with an expectation
      port_writes |-> 0,      \* writes of dut_if.instruction
      rf_appended |-> 0,
      pc_appended |-> 0,
      mw_appended |-> 0,      \* pairs appended to the memory-write queues
      mw_due      |-> 0,      \* instructions driven that write memory (stores, successful SC.W)
      mw_seen     |-> 0,      \* DUT writes the memory monitor sampled
      mem_wr      |-> [mask |-> 0, addr |-> Zero32, data |-> Zero32],  \* the last of them
      mw_log      |-> <<>>,   \* every (address, data) pair appended, in order
      mw_cmp      |-> <<>>,   \* every pair the monitor removed for comparison, in order
      flush_run   |-> 0,      \* flush iterations since the last taken branch or jump
      generated   |-> 0,      \* calls of the random generator
      br_recorded |-> {},     \* branch outcome last passed to record_instruction ({}: None)
      csr_address |-> "None", \* csr_address passed to the encoder and the model
      last_lr     |-> {},     \* aligned address of the most recent LR.W, if any
      lr_rs1      |-> 0,      \* its rs1
      sc_since_lr |-> FALSE,  \* an SC.W was executed after the most recent LR.W
      since_lr    |-> {},     \* kinds of instruction issued between that LR.W and the next SC.W
      sc_count    |-> 0,      \* SC.W executed
      sc_success  |-> FALSE,  \* outcome of the last SC.W
      sc_rd       |-> 0,      \* its rd, aligned address and rs2 value
      sc_address  |-> Zero32,
      sc_data     |-> Zero32,
      calls       |-> 0,      \* InstructionExecutor calls of the free-form client
      last        |-> "none", \* last step of the driver
      mem_last    |-> "none", \* last outcome of the memory-write monitor
      o_pc_bit1   |-> 0,      \* bit 1 of the DUT's o_pc (compressed test)
      align_wait  |-> FALSE,  \* a C.NOP cycle was spent waiting for o_pc bit 1 to clear
      exc         |-> [type |-> "none", carries |-> {}]  \* exception the monitor raised
    ]

Init ==
    /\ test \in {"random", "directed", "compressed", "executor"}
    /\ result = "running"
    /\ fail_reason = ""
    /\ clk = 0
    /\ clock_started = FALSE
    /\ i_rst = FALSE
    /\ o_vld = FALSE
    /\ dwait = "run"
    /\ dpc = "init"
    /\ runnable = {}
    /\ mon = [m \in Monitors |-> "off"]
    /\ loop_i = 0
    /\ reset_left = 0
    /\ drain_cycles = 0
    /\ instruction = "x"
    /\ register_file_current = ZeroRegfile
    /\ register_file_previous = ZeroRegfile
    /\ program_counter_current = Zero32
    /\ reservation = {}
    /\ flush_remaining = 0
    /\ branch_taken_current = FALSE
    /\ register_file_current_expected_queue = <<>>
    /\ program_counter_expected_values_queue = <<>>
    /\ memory_write_address_expected_queue = <<>>
    /\ memory_write_data_expected_queue = <<>>
    /\ ram_bytes = <<>>
    /\ instr_params = NopParams
    /\ cur = NopParams
    /\ expected_pc = Zero32
    /\ coverage = [m \in Mnemonics |-> 0]
    /\ hist = HistInit

Running == result = "running"

DriverTurn == Running /\ dwait \in {"run", "ready"}

\* A monitor runs only while the driver is suspended or not yet resumed.  The
\* monitors share no state with each other, so they are resumed in one order.
MonitorBefore(m) ==
    CASE m = "mem" -> {}
      [] m = "rf" -> {"mem"}
      [] m = "pc" -> {"mem", "rf"}

MonitorTurn(m) ==
    Running /\ dwait # "run" /\ m \in runnable /\ runnable \cap MonitorBefore(m) = {}

Fail(why) ==
    /\ result' = "failed"
    /\ fail_reason' = why

\* the edge a suspended monitor awaits
MonAwaits(m) ==
    CASE mon[m] \in {"reset_wait", "rise"} -> "rise"
      [] mon[m] = "fall" -> "fall"
      [] OTHER -> "-"

\* ------------------------------------------------------------------ the clock
\* cocotb.clock.Clock: the next edge, once every coroutine is suspended
ClockEdge ==
    /\ Running
    /\ clock_started
    /\ dwait \in {"rise", "fall"}
    /\ runnable = {}
    /\ LET e == IF clk = 0 THEN "rise" ELSE "fall"
       IN  /\ clk' = 1 - clk
           /\ dwait' = IF dwait = e THEN "ready" ELSE dwait
           /\ runnable' = {m \in Monitors : MonAwaits(m) = e}
           /\ IF e = "rise" /\ (mon["rf"] # "off" \/ mon["pc"] # "off")
              THEN o_vld' \in BOOLEAN ELSE o_vld' = FALSE
           \* the DUT's PC moves at a rising edge
           /\ IF e = "rise" /\ test = "compressed"
              THEN \E b \in {0, 1} : hist' = [hist EXCEPT !.o_pc_bit1 = b]
              ELSE hist' = hist
    /\ UNCHANGED <<test, result, fail_reason, clock_started, i_rst, dpc, mon, loop_vars,
                   instruction, reg_vars, reservation, flush_vars, rfpc_queues, mw_queues,
                   ram_bytes, iter_vars>>

\* ---------------------------------------------------------- the environment
\* What the DUT may show on its memory-write port at a rising edge: no write
\* (byte enables 0), the write the head of the queue expects, or a stray write.
NoWrite == [mask |-> 0, addr |-> Zero32, data |-> Zero32]

StrayWrites ==
    { [mask |-> 15, addr |-> W(0, 256), data |-> Zero32],
      [mask |-> 15, addr |-> W(0, 512), data |-> Zero32] }

DutWrites ==
    {NoWrite} \cup StrayWrites \cup
    ( IF memory_write_address_expected_queue # <<>> /\ memory_write_data_expected_queue # <<>>
      THEN {[mask |-> 15, addr |-> Head(memory_write_address_expected_queue),
             data |-> Head(memory_write_data_expected_queue)]}
      ELSE {} )

\* ------------------------------------------- MemoryModel.driver_and_monitor
\* start of the coroutine up to its first await RisingEdge
MemMonitorBegin ==
    /\ MonitorTurn("mem")
    /\ mon["mem"] = "begin"
    /\ mon' = [mon EXCEPT !["mem"] = "reset_wait"]
    /\ runnable' = runnable \ {"mem"}
    /\ UNCHANGED <<test, result, fail_reason, clock_vars, dwait, dpc, loop_vars,
                   instruction, reg_vars, reservation, flush_vars, rfpc_queues, mw_queues,
                   ram_bytes, iter_vars, hist>>

\* while bool(i_rst): await RisingEdge; then the first await FallingEdge
MemMonitorResetWait ==
    /\ MonitorTurn("mem")
    /\ mon["mem"] = "reset_wait"
    /\ mon' = [mon EXCEPT !["mem"] = IF i_rst THEN "reset_wait" ELSE "fall"]
    /\ runnable' = runnable \ {"mem"}
    /\ UNCHANGED <<test, result, fail_reason, clock_vars, dwait, dpc, loop_vars,
                   instruction, reg_vars, reservation, flush_vars, rfpc_queues, mw_queues,
                   ram_bytes, iter_vars, hist>>

\* await FallingEdge done, await RisingEdge
MemMonitorFall ==
    /\ MonitorTurn("mem")
    /\ mon["mem"] = "fall"
    /\ mon' = [mon EXCEPT !["mem"] = "rise"]
    /\ runnable' = runnable \ {"mem"}
    /\ UNCHANGED <<test, result, fail_reason, clock_vars, dwait, dpc, loop_vars,
                   instruction, reg_vars, reservation, flush_vars, rfpc_queues, mw_queues,
                   ram_bytes, iter_vars, hist>>

\* the queue the monitor removes from when it sees a write
MonitorPopSkip(q) == IF Len(q) > 1 THEN Tail(Tail(q)) ELSE Tail(q)
MonitorPop(q) == Tail(q)

\* the entry the monitor compares with
MonitorExpected(q) == Head(q)

\* whether the monitor takes an entry for the sampled write
MonitorChecks(wr_mask) == wr_mask # 0

\* what the monitor does on a write with an empty address queue
UnexpectedWriteIgnored == "ignore"
UnexpectedWrite == "raise"

\* memory_model.py 196-207: a failed assert raises AssertionError; its message
\* names the channel, the value got, the value expected and RANDOM_SEED
MismatchRaised(channel) ==
    [type |-> "AssertionError",
     carries |-> {"channel", "expected", "actual", "random_seed"}]

\* after the rising edge: sample the write port and check it
MemMonitorSample ==
    /\ MonitorTurn("mem")
    /\ mon["mem"] = "rise"
    /\ runnable' = runnable \ {"mem"}
    /\ \E wr \in DutWrites :
         IF ~MonitorChecks(wr.mask)
         THEN /\ mon' = [mon EXCEPT !["mem"] = "fall"]
              /\ hist' = [hist EXCEPT !.mem_last = "mem_idle"]
              /\ UNCHANGED <<result, fail_reason, mw_queues>>
         ELSE IF memory_write_address_expected_queue # <<>>
         THEN IF memory_write_data_expected_queue = <<>>
              THEN \* pop(0) of an empty list: IndexError
                   /\ Fail("mem_index_error")
                   /\ memory_write_address_expected_queue' =
                          MonitorPop(memory_write_address_expected_queue)
                   /\ mon' = [mon EXCEPT !["mem"] = "dead"]
                   /\ hist' = [hist EXCEPT !.mw_seen = @ + 1, !.mem_wr = wr, !.mem_last = "mem_error"]
                   /\ UNCHANGED memory_write_data_expected_queue
              ELSE LET exp_addr == MonitorExpected(memory_write_address_expected_queue)
                       exp_data == MonitorExpected(memory_write_data_expected_queue)
                   IN  /\ memory_write_address_expected_queue' =
                              MonitorPop(memory_write_address_expected_queue)
                       /\ memory_write_data_expected_queue' =
                              MonitorPop(memory_write_data_expected_queue)
                       /\ hist' = [hist EXCEPT !.mw_seen = @ + 1,
                                               !.mem_wr = wr,
                                               !.mw_cmp = Append(@, <<exp_addr, exp_data>>),
                                               !.mem_last = "mem_compare",
                                               !.exc = IF wr.addr # exp_addr
                                                       THEN MismatchRaised("address")
                                                       ELSE IF wr.data # exp_data
                                                       THEN MismatchRaised("data")
                                                       ELSE @]
                       /\ IF wr.addr # exp_addr
                          THEN /\ Fail("mem_addr_mismatch")
                               /\ mon' = [mon EXCEPT !["mem"] = "dead"]
                          ELSE IF wr.data # exp_data
                          THEN /\ Fail("mem_data_mismatch")
                               /\ mon' = [mon EXCEPT !["mem"] = "dead"]
                          ELSE /\ mon' = [mon EXCEPT !["mem"] = "fall"]
                               /\ UNCHANGED <<result, fail_reason>>
         ELSE IF UnexpectedWrite = "raise"
              THEN /\ Fail("mem_unexpected_write")
                   /\ mon' = [mon EXCEPT !["mem"] = "dead"]
                   /\ hist' = [hist EXCEPT !.mw_seen = @ + 1, !.mem_wr = wr,
                                           !.mem_last = "mem_unexpected"]
                   /\ UNCHANGED mw_queues
              ELSE /\ mon' = [mon EXCEPT !["mem"] = "fall"]
                   /\ hist' = [hist EXCEPT !.mw_seen = @ + 1, !.mem_wr = wr,
                                           !.mem_last = "mem_ignored"]
                   /\ UNCHANGED <<result, fail_reason, mw_queues>>
    /\ UNCHANGED <<test, clock_vars, dwait, dpc, loop_vars,
                   instruction, reg_vars, reservation, flush_vars, rfpc_queues,
                   ram_bytes, iter_vars>>

\* ------------------------------------------------ regfile_monitor, pc_monitor
\* (monitors/monitors.py) on its valid signal a monitor removes the oldest
\* expectation and compares; a valid signal with an empty queue is an error
ScoreboardBegin(m) ==
    /\ MonitorTurn(m)
    /\ mon[m] = "begin"
    /\ mon' = [mon EXCEPT ![m] = "rise"]
    /\ runnable' = runnable \ {m}
    /\ UNCHANGED <<test, result, fail_reason, clock_vars, dwait, dpc, loop_vars,
                   instruction, reg_vars, reservation, flush_vars, rfpc_queues, mw_queues,
                   ram_bytes, iter_vars, hist>>

RegfileMonitorBegin == ScoreboardBegin("rf")

PcMonitorBegin == ScoreboardBegin("pc")

\* what the DUT shows on a scoreboard channel: nothing, the expected value, another value
DutEvents == IF o_vld THEN {"match", "wrong"} ELSE {"none"}

RegfileMonitorSample ==
    /\ MonitorTurn("rf")
    /\ mon["rf"] = "rise"
    /\ runnable' = runnable \ {"rf"}
    /\ \E ev \in DutEvents :
         CASE ev = "none" ->
                UNCHANGED <<result, fail_reason, mon, register_file_current_expected_queue>>
           [] ev = "match" ->
                /\ register_file_current_expected_queue # <<>>
                /\ register_file_current_expected_queue' =
                       Tail(register_file_current_expected_queue)
                /\ UNCHANGED <<result, fail_reason, mon>>
           [] ev = "wrong" ->
                /\ Fail(IF register_file_current_expected_queue = <<>>
                        THEN "rf_unexpected" ELSE "rf_mismatch")
                /\ mon' = [mon EXCEPT !["rf"] = "dead"]
                /\ register_file_current_expected_queue' =
                       IF register_file_current_expected_queue = <<>>
                       THEN <<>> ELSE Tail(register_file_current_expected_queue)
    /\ UNCHANGED <<test, clock_vars, dwait, dpc, loop_vars, instruction, reg_vars,
                   reservation, flush_vars, program_counter_expected_values_queue,
                   mw_queues, ram_bytes, iter_vars, hist>>

PcMonitorSample ==
    /\ MonitorTurn("pc")
    /\ mon["pc"] = "rise"
    /\ runnable' = runnable \ {"pc"}
    /\ \E ev \in DutEvents :
         CASE ev = "none" ->
                UNCHANGED <<result, fail_reason, mon, program_counter_expected_values_queue>>
           [] ev = "match" ->
                /\ program_counter_expected_values_queue # <<>>
                /\ program_counter_expected_values_queue' =
                       Tail(program_counter_expected_values_queue)
                /\ UNCHANGED <<result, fail_reason, mon>>
           [] ev = "wrong" ->
                /\ Fail(IF program_counter_expected_values_queue = <<>>
                        THEN "pc_unexpected" ELSE "pc_mismatch")
                /\ mon' = [mon EXCEPT !["pc"] = "dead"]
                /\ program_counter_expected_values_queue' =
                       IF program_counter_expected_values_queue = <<>>
                       THEN <<>> ELSE Tail(program_counter_expected_values_queue)
    /\ UNCHANGED <<test, clock_vars, dwait, dpc, loop_vars, instruction, reg_vars,
                   reservation, flush_vars, register_file_current_expected_queue,
                   mw_queues, ram_bytes, iter_vars, hist>>

\* --------------------------------------------------- TestState (test_state.py)
\* queue_expected_outputs / the two appends every driver makes per instruction
AppendSnapshotNot(q, rf) == q
AppendSnapshot(q, rf) == Append(q, rf)

AppendPcNot(q, pc) == q
AppendPc(q, pc) == Append(q, pc)

\* a register write with no guard on the destination
update_register_any(rf, rd, v) == [rf EXCEPT ![rd] = v]

\* the guarded register write of every driver (if rd_to_update: / if rd != 0:):
\* x0 is hardwired to zero
update_register(rf, rd, v) == IF rd = 0 THEN rf ELSE [rf EXCEPT ![rd] = v]

\* ------------------------------------------------------------ branch_model.py
branch_taken_decision(op, a, b) ==
    CASE op = "beq" -> a = b
      [] op = "bne" -> a # b

\* ------------------------------------------------- CPUModel (cpu_model.py)
IsControlFlowTaken(ip, rf_prev) ==
    \/ ip.op = "jal"
    \/ ip.op = "beq" /\ branch_taken_decision("beq", rf_prev[ip.rs1], rf_prev[ip.rs2])

\* expected_pc of model_instruction_execution
ModelExpectedPc(ip, rf_prev, pc) ==
    IF IsControlFlowTaken(ip, rf_prev) THEN AddMask32(pc, ip.offset) ELSE AddMask32(pc, 4)

\* rd_to_update, rd_wb_value of model_instruction_execution
ModelRd(ip) == IF ip.op \in {"addi", "jal"} THEN ip.rd ELSE 0

ModelWbValue(ip, rf_prev, pc) ==
    IF ip.op = "jal" THEN AddMask32(pc, 4) ELSE AddMask32(rf_prev[ip.rs1], ip.imm)

\* model_memory_write: address and data of a store
StoreAddress(ip, rf_prev) == AddMask32(rf_prev[ip.rs1], ip.imm)

StoreData(ip, rf_prev) == rf_prev[ip.rs2]

\* ------------------------------------ InstructionGenerator (random generator)
RandomInstructions ==
    { Instr("addi", 1, 2, 0, 0, 0),
      Instr("sw",   0, 1, 2, 0, 0),
      Instr("beq",  0, 1, 2, 0, 8),
      Instr("jal",  0, 0, 0, 0, 8),
      Instr("csrrs", 0, 0, 0, 0, 0) }

\* dut_if.initialize_registers(): random register values, x0 = 0
InitialRegfiles ==
    { [r \in Regs |-> IF r = 0 THEN Zero32 ELSE IF r = 1 THEN v ELSE W(0, 256)] :
        v \in {W(0, 512)} }

\* ------------------------------------------- test_random_riscv_regression_main
RDriver(p) == test = "random" /\ DriverTurn /\ dpc = p

\* test_cpu.py 117-127: park a NOP on the instruction port, draw the registers
RandomInit ==
    /\ RDriver("init")
    /\ instruction' = "addi"
    /\ register_file_current' \in InitialRegfiles
    /\ hist' = [hist EXCEPT !.port_writes = @ + 1]
    /\ dpc' = "clock"
    /\ dwait' = "run"
    /\ UNCHANGED <<test, result, fail_reason, clock_vars, runnable, mon, loop_vars,
                   register_file_previous, program_counter_current, reservation,
                   flush_vars, rfpc_queues, mw_queues, ram_bytes, iter_vars>>

\* test_cpu.py 130: cocotb.start_soon(Clock(...).start())
RandomStartClock ==
    /\ RDriver("clock")
    /\ clock_started' = TRUE
    /\ dpc' = "monitors"
    /\ UNCHANGED <<test, result, fail_reason, clk, i_rst, o_vld, dwait, runnable, mon, loop_vars,
                   instruction, reg_vars, reservation, flush_vars, rfpc_queues, mw_queues,
                   ram_bytes, iter_vars, hist>>

\* test_cpu.py 133-134: start_soon(regfile_monitor), start_soon(pc_monitor)
RandomStartMonitors ==
    /\ RDriver("monitors")
    /\ mon' = [mon EXCEPT !["rf"] = "begin", !["pc"] = "begin"]
    /\ runnable' = runnable \cup {"rf", "pc"}
    /\ dpc' = "reset"
    /\ UNCHANGED <<test, result, fail_reason, clock_vars, dwait, loop_vars,
                   instruction, reg_vars, reservation, flush_vars, rfpc_queues, mw_queues,
                   ram_bytes, iter_vars, hist>>

\* dut_if.reset_dut(reset_cycles): assert reset, wait, release
ResetBegin ==
    /\ DriverTurn
    /\ dpc = "reset"
    /\ i_rst' = TRUE
    /\ reset_left' = ResetCycles
    /\ dpc' = "reset_wait"
    /\ dwait' = "rise"
    /\ UNCHANGED <<test, result, fail_reason, clk, clock_started, o_vld, runnable, mon, loop_i,
                   drain_cycles, instruction, reg_vars, reservation, flush_vars,
                   rfpc_queues, mw_queues, ram_bytes, iter_vars, hist>>

ResetWait ==
    /\ DriverTurn
    /\ dpc = "reset_wait"
    /\ reset_left' = reset_left - 1
    /\ IF reset_left > 1
       THEN /\ dwait' = "rise"
            /\ UNCHANGED <<i_rst, dpc>>
       ELSE /\ i_rst' = FALSE
            /\ dwait' = "run"
            /\ dpc' = "post_reset"
    /\ UNCHANGED <<test, result, fail_reason, clk, clock_started, o_vld, runnable, mon, loop_i,
                   drain_cycles, instruction, reg_vars, reservation, flush_vars,
                   rfpc_queues, mw_queues, ram_bytes, iter_vars, hist>>

\* test_cpu.py 143-149: the monitor started after the reset
PostResetMonitorsNone == {}
PostResetMonitors == {"mem"}

\* test_cpu.py 140-152: MemoryModel(dut), start_soon(driver_and_monitor(...)),
\* register_file_previous = register_file_current.copy()
RandomPostReset ==
    /\ RDriver("post_reset")
    /\ ram_bytes' = <<>>
    /\ mon' = [m \in Monitors |-> IF m \in PostResetMonitors THEN "begin" ELSE mon[m]]
    /\ runnable' = runnable \cup PostResetMonitors
    /\ register_file_previous' = register_file_current
    /\ loop_i' = 0
    /\ dpc' = "warmup"
    /\ dwait' = "run"
    /\ UNCHANGED <<test, result, fail_reason, clock_vars, reset_left, drain_cycles,
                   instruction, register_file_current, program_counter_current,
                   reservation, flush_vars, rfpc_queues, mw_queues, iter_vars, hist>>

\* test_cpu.py 162-174: one warmup NOP: enqueue, drive, await RisingEdge
RandomWarmupIssue ==
    /\ RDriver("warmup")
    /\ register_file_current_expected_queue' =
           AppendSnapshot(register_file_current_expected_queue, register_file_current)
    /\ expected_pc' = AddMask32(program_counter_current, 4)
    /\ program_counter_expected_values_queue' =
           AppendPc(program_counter_expected_values_queue, expected_pc')
    /\ instruction' = "addi"
    /\ cur' = NopParams
    /\ hist' = [hist EXCEPT !.issued = @ + 1, !.port_writes = @ + 1,
                            !.rf_appended = Len(register_file_current_expected_queue')
                                            - Len(register_file_current_expected_queue) + @,
                            !.pc_appended = Len(program_counter_expected_values_queue')
                                            - Len(program_counter_expected_values_queue) + @,
                            !.last = "warmup_nop"]
    /\ dpc' = "warmup_adv"
    /\ dwait' = "rise"
    /\ UNCHANGED <<test, result, fail_reason, clock_vars, runnable, mon, loop_vars,
                   reg_vars, reservation, flush_vars, mw_queues, ram_bytes,
                   instr_params, coverage>>

\* state.update_program_counter(expected_pc); state.advance_register_state():
\* the current register file is copied to the previous one
AdvanceStateKeepsPrevious ==
    /\ program_counter_current' = expected_pc
    /\ UNCHANGED register_file_previous

AdvanceState ==
    /\ program_counter_current' = expected_pc
    /\ register_file_previous' = register_file_current

\* test_cpu.py 175-184 and the loop test of line 162
RandomWarmupAdvance ==
    /\ RDriver("warmup_adv")
    /\ AdvanceState
    /\ IF loop_i + 1 < PIPELINE_DEPTH
       THEN /\ loop_i' = loop_i + 1
            /\ dpc' = "warmup"
       ELSE /\ loop_i' = 0
            /\ dpc' = "loop"
    /\ dwait' = "run"
    /\ UNCHANGED <<test, result, fail_reason, clock_vars, runnable, mon, reset_left,
                   drain_cycles, instruction, register_file_current, reservation,
                   flush_vars, rfpc_queues, mw_queues, ram_bytes, iter_vars, hist>>

\* test_common.handle_branch_flush: one flush cycle is consumed, a NOP is returned
FlushCountAfter(n) == n - 1

\* state.is_in_flush
is_in_flush == flush_remaining > 0

\* test_cpu.py 205: the branch of the main loop that injects the flush NOP
FlushPathNever(in_flush) == FALSE
FlushPathTaken(in_flush) == in_flush

\* test_cpu.py 190-197: next iteration of the main loop, or leave it (line 335)
RandomLoopHead ==
    /\ RDriver("loop")
    /\ IF loop_i < MaxLoops
       THEN /\ dpc' = "generate"
            /\ dwait' = IF loop_i # 0 THEN "fall" ELSE "run"
       ELSE /\ dpc' = "complete"
            /\ dwait' = "fall"
    /\ UNCHANGED <<test, result, fail_reason, clock_vars, runnable, mon, loop_vars,
                   instruction, reg_vars, reservation, flush_vars, rfpc_queues, mw_queues,
                   ram_bytes, iter_vars, hist>>

\* InstructionParams.csr_address: a counter CSR for a CSR instruction, None for
\* every other instruction
csr_address_of_any(ip) == "instret"
csr_address_of(ip) == IF ip.op = "csrrs" THEN "instret" ELSE "None"

\* test_cpu.py 228-230: csr_address, decided after handle_branch_flush has run
CsrAddressPassed(in_flush, ip) == IF ~in_flush THEN csr_address_of(ip) ELSE "None"

\* test_cpu.py 232-235: the branch outcome passed to stats.record_instruction
RecordedOutcome(op) == IF op = "beq" THEN {branch_taken_current} ELSE {}

\* test_cpu.py 196-235: wait_ready, flush NOP or random instruction, coverage
RandomGenerate ==
    /\ RDriver("generate")
    /\ IF FlushPathTaken(is_in_flush)
       THEN /\ cur' = NopParams
            /\ flush_remaining' = FlushCountAfter(flush_remaining)
            /\ UNCHANGED instr_params
            /\ hist' = [hist EXCEPT !.flush_run = @ + 1, !.last = "flush_nop",
                                    !.br_recorded = RecordedOutcome(cur'.op),
                                    !.csr_address =
                                        CsrAddressPassed(flush_remaining' > 0, instr_params')]
       ELSE /\ instr_params' \in RandomInstructions
            /\ cur' = instr_params'
            /\ UNCHANGED flush_remaining
            /\ hist' = [hist EXCEPT !.generated = @ + 1, !.last = "random",
                                    !.br_recorded = RecordedOutcome(cur'.op),
                                    !.csr_address =
                                        CsrAddressPassed(flush_remaining' > 0, instr_params')]
    /\ coverage' = [coverage EXCEPT ![cur'.op] = @ + 1]
    /\ dpc' = "model"
    /\ dwait' = "run"
    /\ UNCHANGED <<test, result, fail_reason, clock_vars, runnable, mon, loop_vars,
                   instruction, reg_vars, reservation, branch_taken_current,
                   rfpc_queues, mw_queues, ram_bytes, expected_pc>>

\* the two appends of a modelled memory write: address, then data
ExpectWriteAddress(q, address) == Append(q, address)

ExpectWriteDataNot(q, write_data) == q
ExpectWriteData(q, write_data) == Append(q, write_data)

\* a store queues the address and the data of its memory write
QueuesNoMemoryWrite(op) == FALSE
QueuesMemoryWrite(op) == op = "sw"

\* test_cpu.py 240-266: model the instruction, queue the expectations
RandomModel ==
    /\ RDriver("model")
    /\ expected_pc' = ModelExpectedPc(cur, register_file_previous, program_counter_current)
    /\ branch_taken_current' =
           IF cur.op = "beq"
           THEN branch_taken_decision("beq", register_file_previous[cur.rs1],
                                      register_file_previous[cur.rs2])
           ELSE branch_taken_current
    /\ flush_remaining' =
           IF IsControlFlowTaken(cur, register_file_previous)
           THEN FLUSH_CYCLES ELSE flush_remaining
    /\ IF QueuesMemoryWrite(cur.op)
       THEN /\ memory_write_address_expected_queue' =
                   ExpectWriteAddress(memory_write_address_expected_queue,
                                      StoreAddress(cur, register_file_previous))
            /\ memory_write_data_expected_queue' =
                   ExpectWriteData(memory_write_data_expected_queue,
                                   StoreData(cur, register_file_previous))
            /\ ram_bytes' = write_word(ram_bytes, StoreAddress(cur, register_file_previous),
                                       StoreData(cur, register_file_previous))
       ELSE UNCHANGED <<mw_queues, ram_bytes>>
    /\ register_file_current' =
           update_register(register_file_current, ModelRd(cur),
                           ModelWbValue(cur, register_file_previous, program_counter_current))
    /\ register_file_current_expected_queue' =
           AppendSnapshot(register_file_current_expected_queue, register_file_current')
    /\ program_counter_expected_values_queue' =
           AppendPc(program_counter_expected_values_queue, expected_pc')
    /\ hist' = [hist EXCEPT
                  !.rf_appended = Len(register_file_current_expected_queue')
                                  - Len(register_file_current_expected_queue) + @,
                  !.pc_appended = Len(program_counter_expected_values_queue')
                                  - Len(program_counter_expected_values_queue) + @,
                  !.mw_appended = IF QueuesMemoryWrite(cur.op) THEN @ + 1 ELSE @,
                  !.mw_log = IF QueuesMemoryWrite(cur.op)
                             THEN Append(@, <<StoreAddress(cur, register_file_previous),
                                              StoreData(cur, register_file_previous)>>)
                             ELSE @,
                  !.flush_run = IF IsControlFlowTaken(cur, register_file_previous)
                                THEN 0 ELSE @]
    /\ dpc' = "drive"
    /\ dwait' = "run"
    /\ UNCHANGED <<test, result, fail_reason, clock_vars, runnable, mon, loop_vars,
                   instruction, register_file_previous, program_counter_current,
                   reservation, instr_params, cur, coverage>>

\* test_cpu.py 271-306: write the instruction, await RisingEdge
RandomDrive ==
    /\ RDriver("drive")
    /\ instruction' = cur.op
    /\ hist' = [hist EXCEPT !.issued = @ + 1, !.port_writes = @ + 1,
                            !.mw_due = IF cur.op = "sw" THEN @ + 1 ELSE @]
    /\ dpc' = "advance"
    /\ dwait' = "rise"
    /\ UNCHANGED <<test, result, fail_reason, clock_vars, runnable, mon, loop_vars,
                   reg_vars, reservation, flush_vars, rfpc_queues, mw_queues, ram_bytes,
                   iter_vars>>

\* test_cpu.py 309-328: counters, calculate_internal_pc_update, advance_register_state
RandomAdvance ==
    /\ RDriver("advance")
    /\ AdvanceState
    /\ loop_i' = loop_i + 1
    /\ dpc' = "loop"
    /\ dwait' = "run"
    /\ UNCHANGED <<test, result, fail_reason, clock_vars, runnable, mon, reset_left,
                   drain_cycles, instruction, register_file_current, reservation,
                   flush_vars, rfpc_queues, mw_queues, ram_bytes, iter_vars, hist>>

\* stats.check_coverage(min_coverage_count)
coverage_issues_none == {}
coverage_issues == {m \in Mnemonics : coverage[m] < MIN_COVERAGE_COUNT}

\* test_cpu.py 336-354: park a NOP, verify coverage
RandomComplete ==
    /\ RDriver("complete")
    /\ instruction' = "addi"
    /\ hist' = [hist EXCEPT !.port_writes = @ + 1, !.last = "parked"]
    /\ IF coverage_issues # {}
       THEN /\ Fail("coverage")
            /\ UNCHANGED <<dpc, dwait>>
       ELSE /\ dpc' = "drain"
            /\ dwait' = "run"
            /\ UNCHANGED <<result, fail_reason>>
    /\ UNCHANGED <<test, clock_vars, runnable, mon, loop_vars, reg_vars, reservation,
                   flush_vars, rfpc_queues, mw_queues, ram_bytes, iter_vars>>

AllQueuesEmpty ==
    /\ register_file_current_expected_queue = <<>>
    /\ program_counter_expected_values_queue = <<>>
    /\ memory_write_address_expected_queue = <<>>
    /\ memory_write_data_expected_queue = <<>>

\* test_common.flush_remaining_outputs: wait until every queue is empty, at most
\* the cycle budget; queues still not empty then fail the test
DrainBudgetUnbounded(n) == FALSE
DrainBudgetSpent(n) == n >= MaxDrainCycles

RandomDrain ==
    /\ RDriver("drain")
    /\ IF AllQueuesEmpty
       THEN /\ result' = "passed"
            /\ UNCHANGED <<fail_reason, dwait, drain_cycles>>
       ELSE IF DrainBudgetSpent(drain_cycles)
       THEN /\ Fail("drain_timeout")
            /\ UNCHANGED <<dwait, drain_cycles>>
       ELSE /\ drain_cycles' = drain_cycles + 1
            /\ dwait' = "rise"
            /\ UNCHANGED <<result, fail_reason>>
    /\ UNCHANGED <<test, clock_vars, dpc, runnable, mon, loop_i, reset_left, instruction,
                   reg_vars, reservation, flush_vars, rfpc_queues, mw_queues, ram_bytes,
                   iter_vars, hist>>

NextRandom ==
    \/ ClockEdge
    \/ MemMonitorBegin
    \/ MemMonitorResetWait
    \/ MemMonitorFall
    \/ MemMonitorSample
    \/ RegfileMonitorBegin
    \/ PcMonitorBegin
    \/ RegfileMonitorSample
    \/ PcMonitorSample
    \/ RandomInit
    \/ RandomStartClock
    \/ RandomStartMonitors
    \/ ResetBegin
    \/ ResetWait
    \/ RandomPostReset
    \/ RandomWarmupIssue
    \/ RandomWarmupAdvance
    \/ RandomLoopHead
    \/ RandomGenerate
    \/ RandomModel
    \/ RandomDrive
    \/ RandomAdvance
    \/ RandomComplete
    \/ RandomDrain

InitRandom == Init /\ test = "random"

SpecRandom == InitRandom /\ [][NextRandom]_vars

\* ------------------------------------------------------- LR.W / SC.W modelling
\* TestState.set_reservation / check_reservation / clear_reservation; the
\* reservation is the empty set (None) or holds one word-aligned address
set_reservation(address) == {address}

check_reservation(res, address) == address \in res

clear_reservation == {}

\* instruction_executor.py 357, 424 / test_directed_atomics.py 113
AtomicAddressUnaligned(rf_prev, rs1) == rf_prev[rs1]
AtomicAddress(rf_prev, rs1) == AlignWord(rf_prev[rs1])

\* instruction_executor.py 427-428: the reservation after the check of an SC.W
ScReservationKeptOnFailure(res, success) == IF success THEN clear_reservation ELSE res
ScReservationAfter(res, success) == clear_reservation

\* instruction_executor.py 427: success of an SC.W
ScSuccessAlways(res, address) == TRUE
ScSuccess(res, address) == check_reservation(res, address)

\* instruction_executor.py 431: 0 = success, 1 = failure
ScResultValue(success) == IF success THEN Zero32 ELSE W(0, 1)

\* instruction_executor.py 433-438: queue and model the write only on success
ScWritesAlways(success) == TRUE
ScWrites(success) == success

\* execute_store / execute_nop: no call touches the reservation
ReservationClearedByStore(res, ins) == IF ins.op = "sw" THEN {} ELSE res

ReservationAfterOther(res, ins) == res

\* The effect of one LR.W / SC.W / SW / NOP on the model state, up to the
\* write of dut_if.instruction (the code between await wait_ready() and
\* await RisingEdge).  lr_value is the value written back by an LR.W.
IssueEffect(ins, lr_value) ==
    LET address == AtomicAddress(register_file_previous, ins.rs1)
        success == ScSuccess(reservation, address)
        sw_addr == AddMask32(register_file_previous[ins.rs1], 0)
        wr_addr == IF ins.op = "sc.w" THEN address ELSE sw_addr
        wr_data == register_file_previous[ins.rs2]
        writes  == \/ QueuesMemoryWrite(ins.op)
                   \/ ins.op = "sc.w" /\ ScWrites(success)
        wb      == CASE ins.op = "lr.w" -> lr_value
                     [] ins.op = "sc.w" -> ScResultValue(success)
                     [] OTHER -> Zero32
        rd      == IF ins.op \in {"lr.w", "sc.w"} THEN ins.rd ELSE 0
    IN  /\ reservation' =
               CASE ins.op = "lr.w" -> set_reservation(address)
                 [] ins.op = "sc.w" -> ScReservationAfter(reservation, success)
                 [] OTHER -> ReservationAfterOther(reservation, ins)
        /\ IF writes
           THEN /\ memory_write_address_expected_queue' =
                       ExpectWriteAddress(memory_write_address_expected_queue, wr_addr)
                /\ memory_write_data_expected_queue' =
                       ExpectWriteData(memory_write_data_expected_queue, wr_data)
                /\ ram_bytes' = write_word(ram_bytes, wr_addr, wr_data)
           ELSE UNCHANGED <<mw_queues, ram_bytes>>
        /\ register_file_current' = update_register(register_file_current, rd, wb)
        /\ register_file_current_expected_queue' =
               AppendSnapshot(register_file_current_expected_queue, register_file_current')
        /\ expected_pc' = AddMask32(program_counter_current, 4)
        /\ program_counter_expected_values_queue' =
               AppendPc(program_counter_expected_values_queue, expected_pc')
        /\ instruction' = ins.op
        /\ hist' = [hist EXCEPT
              !.issued = @ + 1,
              !.port_writes = @ + 1,
              !.rf_appended = Len(register_file_current_expected_queue')
                              - Len(register_file_current_expected_queue) + @,
              !.pc_appended = Len(program_counter_expected_values_queue')
                              - Len(program_counter_expected_values_queue) + @,
              !.mw_appended = IF writes THEN @ + 1 ELSE @,
              !.mw_due = IF ins.op = "sw" \/ (ins.op = "sc.w" /\ success) THEN @ + 1 ELSE @,
              !.mw_log = IF writes THEN Append(@, <<wr_addr, wr_data>>) ELSE @,
              !.last_lr = IF ins.op = "lr.w" THEN {AlignWord(register_file_previous[ins.rs1])}
                          ELSE @,
              !.lr_rs1 = IF ins.op = "lr.w" THEN ins.rs1 ELSE @,
              !.since_lr =
                  CASE ins.op = "lr.w" -> {}
                    [] ins.op = "sc.w" -> @
                    [] OTHER ->
                         IF hist.last_lr = {} \/ hist.sc_since_lr THEN @
                         ELSE @ \cup { IF ins.op # "sw" THEN "nop"
                                       ELSE IF AlignWord(sw_addr) \in hist.last_lr
                                            THEN "store_reserved" ELSE "store" },
              !.sc_since_lr = IF ins.op = "lr.w" THEN FALSE
                              ELSE IF ins.op = "sc.w" THEN TRUE ELSE @,
              !.sc_count = IF ins.op = "sc.w" THEN @ + 1 ELSE @,
              !.sc_success = IF ins.op = "sc.w" THEN success ELSE @,
              !.sc_rd = IF ins.op = "sc.w" THEN ins.rd ELSE @,
              !.sc_address = IF ins.op = "sc.w" THEN AlignWord(register_file_previous[ins.rs1])
                             ELSE @,
              !.sc_data = IF ins.op = "sc.w" THEN register_file_previous[ins.rs2] ELSE @,
              !.last = ins.op]

\* ------------------------------------------------ run_directed_lr_sc_test
DInstr(op, rd, rs1, rs2, exp) ==
    [op |-> op, rd |-> rd, rs1 |-> rs1, rs2 |-> rs2, imm |-> 0, offset |-> 0, exp |-> exp]

DNop == DInstr("addi", 0, 0, 0, Zero32)

DCheck(reg, exp) == DInstr("check", 0, reg, 0, exp)

Nops(n) == [i \in 1 .. n |-> DNop]

test_address_1 == W(0, 256)
test_address_2 == W(0, 512)
test_data      == W(57005, 48879)
test_value_1   == W(4660, 22136)
test_value_2   == W(34661, 17185)

\* test_directed_atomics.py 278-287
DirectedRegfile ==
    [r \in Regs |->
        CASE r = 10 -> test_address_1
          [] r = 11 -> test_address_2
          [] r = 12 -> test_data
          [] r = 20 -> test_value_1
          [] r = 21 -> test_value_2
          [] OTHER  -> W(r * 257, r * 257)]

\* test_directed_atomics.py 322-568: the instruction sequence of the test and
\* the register checks between them
DirectedProgram ==
    Nops(8)
    \o << DInstr("sw", 0, 10, 20, Zero32), DInstr("sw", 0, 11, 21, Zero32) >>
    \o Nops(PIPELINE_DEPTH)
    \o << DInstr("lr.w", 5, 10, 0, test_value_1) >>
    \o Nops(PIPELINE_DEPTH + 4)
    \o << DCheck(5, test_value_1), DInstr("sc.w", 6, 10, 12, Zero32) >>
    \o Nops(PIPELINE_DEPTH)
    \o << DCheck(6, Zero32), DInstr("sc.w", 7, 10, 12, W(0, 1)) >>
    \o Nops(PIPELINE_DEPTH)
    \o << DCheck(7, W(0, 1)),
          DInstr("lr.w", 8, 10, 0, test_data), DInstr("sc.w", 9, 11, 12, W(0, 1)) >>
    \o Nops(PIPELINE_DEPTH)
    \o << DCheck(9, W(0, 1)),
          DInstr("lr.w", 13, 11, 0, test_value_2), DInstr("sc.w", 14, 11, 12, Zero32) >>
    \o Nops(PIPELINE_DEPTH)
    \o << DCheck(14, Zero32), DInstr("lr.w", 15, 10, 0, test_data) >>
    \o Nops(3)
    \o << DInstr("sc.w", 16, 10, 12, Zero32) >>
    \o Nops(PIPELINE_DEPTH)
    \o << DCheck(16, Zero32) >>
    \o Nops(10)

\* A client of InstructionExecutor: registers as in the directed test, and x13
\* holding an unaligned address inside the word of test_address_1
ExecutorRegfile == [DirectedRegfile EXCEPT ![13] = W(0, 258)]

ExecutorCalls ==
    { DInstr("lr.w", 5, r, 0, Zero32) : r \in {10, 11, 13} }
    \cup { DInstr("sc.w", 6, r, 12, Zero32) : r \in {10, 11, 13} }
    \cup { DInstr("sc.w", 0, 10, 12, Zero32),
           DInstr("sw", 0, 10, 20, Zero32),
           DNop }

SDriver(p) == test \in {"directed", "executor"} /\ DriverTurn /\ dpc = p

\* test_directed_atomics.py 260-291
DirectedInit ==
    /\ SDriver("init")
    /\ instruction' = "addi"
    /\ register_file_current' =
           IF test = "directed" THEN DirectedRegfile ELSE ExecutorRegfile
    /\ hist' = [hist EXCEPT !.port_writes = @ + 1]
    /\ dpc' = "clock"
    /\ UNCHANGED <<test, result, fail_reason, clock_vars, dwait, runnable, mon, loop_vars,
                   register_file_previous, program_counter_current, reservation,
                   flush_vars, rfpc_queues, mw_queues, ram_bytes, iter_vars>>

\* test_directed_atomics.py 294; the register-file and PC monitors are not started
DirectedStartClock ==
    /\ SDriver("clock")
    /\ clock_started' = TRUE
    /\ dpc' = "reset"
    /\ UNCHANGED <<test, result, fail_reason, clk, i_rst, o_vld, dwait, runnable, mon,
                   loop_vars, instruction, reg_vars, reservation, flush_vars, rfpc_queues,
                   mw_queues, ram_bytes, iter_vars, hist>>

\* test_directed_atomics.py 304-316
DirectedPostReset ==
    /\ SDriver("post_reset")
    /\ ram_bytes' = <<>>
    /\ mon' = [mon EXCEPT !["mem"] = "begin"]
    /\ runnable' = runnable \cup {"mem"}
    /\ register_file_previous' = register_file_current
    /\ loop_i' = 0
    /\ dpc' = "next"
    /\ UNCHANGED <<test, result, fail_reason, clock_vars, dwait, reset_left, drain_cycles,
                   instruction, register_file_current, program_counter_current,
                   reservation, flush_vars, rfpc_queues, mw_queues, iter_vars, hist>>

\* the next statement of the test: an instruction (await FallingEdge first), a
\* register check against the DUT, or the end of the test (line 570)
DirectedNext ==
    /\ test = "directed"
    /\ SDriver("next")
    /\ IF loop_i = Len(DirectedProgram)
       THEN /\ result' = "passed"
            /\ UNCHANGED <<fail_reason, dpc, dwait, cur, loop_i>>
       ELSE LET ins == DirectedProgram[loop_i + 1]
            IN  IF ins.op = "check"
                THEN \* assert dut_if.read_register(reg) == expected
                     \/ /\ loop_i' = loop_i + 1
                        /\ dwait' = "run"
                        /\ UNCHANGED <<result, fail_reason, dpc, cur>>
                     \/ /\ Fail("register_check")
                        /\ UNCHANGED <<dpc, dwait, cur, loop_i>>
                ELSE /\ cur' = ins
                     /\ dpc' = "issue"
                     /\ dwait' = "fall"
                     /\ UNCHANGED <<result, fail_reason, loop_i>>
    /\ UNCHANGED <<test, clock_vars, runnable, mon, reset_left, drain_cycles, instruction,
                   reg_vars, reservation, flush_vars, rfpc_queues, mw_queues, ram_bytes,
                   instr_params, expected_pc, coverage, hist>>

\* the client calls execute_lr, execute_sc, execute_store or execute_nop, or stops
ExecutorCall ==
    /\ test = "executor"
    /\ SDriver("next")
    /\ \/ /\ hist.calls < MaxExecCalls
          /\ cur' \in ExecutorCalls
          /\ hist' = [hist EXCEPT !.calls = @ + 1]
          /\ dpc' = "issue"
          /\ dwait' = "fall"
          /\ UNCHANGED <<result, fail_reason>>
       \/ /\ result' = "passed"
          /\ UNCHANGED <<fail_reason, dpc, dwait, cur, hist>>
    /\ UNCHANGED <<test, clock_vars, runnable, mon, loop_vars, instruction,
                   reg_vars, reservation, flush_vars, rfpc_queues, mw_queues, ram_bytes,
                   instr_params, expected_pc, coverage>>

\* execute_lr_sc_instruction / execute_store / execute_nop of the directed test,
\* execute_lr / execute_sc / execute_store / execute_nop of InstructionExecutor:
\* after await FallingEdge and wait_ready, up to await RisingEdge
AtomicIssue ==
    /\ SDriver("issue")
    /\ IssueEffect(cur,
                   IF test = "directed" THEN cur.exp
                   ELSE read_word(ram_bytes,
                                  AtomicAddress(register_file_previous, cur.rs1)))
    /\ dpc' = "advance"
    /\ dwait' = "rise"
    /\ UNCHANGED <<test, result, fail_reason, clock_vars, runnable, mon, loop_vars,
                   register_file_previous, program_counter_current, flush_vars,
                   instr_params, cur, coverage>>

\* after await RisingEdge: counters, update_program_counter, advance_register_state
AtomicAdvance ==
    /\ SDriver("advance")
    /\ AdvanceState
    /\ loop_i' = loop_i + 1
    /\ dpc' = "next"
    /\ dwait' = "run"
    /\ UNCHANGED <<test, result, fail_reason, clock_vars, runnable, mon, reset_left,
                   drain_cycles, instruction, register_file_current, reservation,
                   flush_vars, rfpc_queues, mw_queues, ram_bytes, iter_vars, hist>>

\* --------------------------------------------- run_compressed_instruction_test
\* test_compressed.py 212-333: execute_compressed_instr calls and check_reg calls
CompressedProgram ==
    << "c.li", "check", "c.li", "check", "c.addi", "check", "c.addi", "check",
       "c.li", "c.mv", "check", "c.add", "check",
       "c.li", "c.addi", "c.addi", "c.li", "c.sub", "check",
       "c.li", "c.li", "c.and", "check", "c.li", "c.li", "c.or", "check",
       "c.li", "c.li", "c.xor", "check", "c.li", "c.slli", "check",
       "c.li", "c.addi", "c.srli", "check", "c.li", "c.srai", "check",
       "c.li", "c.andi", "check" >>

CStep(phase, left) == [op |-> "c.nop", phase |-> phase, left |-> left]

\* (pc_val & 0x2) == 0 without the test
PcWordAlignedAlways(bit1) == TRUE

\* (pc_val & 0x2) == 0
PcWordAligned(bit1) == bit1 = 0

CDriver(p) == test = "compressed" /\ DriverTurn /\ dpc = p

\* test_compressed.py 110-117
CompressedInit ==
    /\ CDriver("init")
    /\ instruction' = "addi"
    /\ hist' = [hist EXCEPT !.port_writes = @ + 1]
    /\ dpc' = "clock"
    /\ UNCHANGED <<test, result, fail_reason, clock_vars, dwait, runnable, mon, loop_vars,
                   reg_vars, reservation, flush_vars, rfpc_queues, mw_queues, ram_bytes,
                   iter_vars>>

\* test_compressed.py 120
CompressedStartClock ==
    /\ CDriver("clock")
    /\ clock_started' = TRUE
    /\ dpc' = "reset"
    /\ UNCHANGED <<test, result, fail_reason, clk, i_rst, o_vld, dwait, runnable, mon,
                   loop_vars, instruction, reg_vars, reservation, flush_vars, rfpc_queues,
                   mw_queues, ram_bytes, iter_vars, hist>>

\* test_compressed.py 126-129: driver_and_monitor([], []): two lists nobody
\* appends to; then flush_pipeline (line 207)
CompressedPostReset ==
    /\ CDriver("post_reset")
    /\ ram_bytes' = <<>>
    /\ memory_write_address_expected_queue' = <<>>
    /\ memory_write_data_expected_queue' = <<>>
    /\ mon' = [mon EXCEPT !["mem"] = "begin"]
    /\ runnable' = runnable \cup {"mem"}
    /\ cur' = CStep("flush", PIPELINE_DEPTH * 2)
    /\ loop_i' = 0
    /\ dpc' = "c_step"
    /\ UNCHANGED <<test, result, fail_reason, clock_vars, dwait, reset_left, drain_cycles,
                   instruction, reg_vars, reservation, flush_vars, rfpc_queues,
                   instr_params, expected_pc, coverage, hist>>

\* flush_pipeline, execute_compressed_instr and check_reg up to the next
\* await FallingEdge; pc_val is read from the DUT's o_pc
CompressedStep ==
    /\ CDriver("c_step")
    /\ CASE cur.phase \in {"flush", "drain"} ->
              IF cur.left > 0
              THEN /\ dpc' = "c_drive"
                   /\ dwait' = "fall"
                   /\ UNCHANGED <<result, fail_reason, cur, loop_i, hist>>
              ELSE /\ cur' = CStep("next", 0)
                   /\ loop_i' = IF cur.phase = "drain" THEN loop_i + 1 ELSE loop_i
                   /\ dwait' = "run"
                   /\ UNCHANGED <<result, fail_reason, dpc, hist>>
         [] cur.phase = "next" ->
              IF loop_i = Len(CompressedProgram)
              THEN /\ result' = "passed"
                   /\ UNCHANGED <<fail_reason, dpc, dwait, cur, loop_i, hist>>
              ELSE IF CompressedProgram[loop_i + 1] = "check"
              THEN \/ /\ loop_i' = loop_i + 1
                      /\ dwait' = "run"
                      /\ UNCHANGED <<result, fail_reason, dpc, cur, hist>>
                   \/ /\ Fail("check_reg")
                      /\ UNCHANGED <<dpc, dwait, cur, loop_i, hist>>
              ELSE /\ cur' = CStep("align", 0)
                   /\ hist' = [hist EXCEPT !.align_wait = FALSE]
                   /\ dwait' = "run"
                   /\ UNCHANGED <<result, fail_reason, dpc, loop_i>>
         [] cur.phase = "align" ->
              /\ cur' = IF PcWordAligned(hist.o_pc_bit1)
                        THEN [op |-> CompressedProgram[loop_i + 1],
                              phase |-> "target", left |-> 0]
                        ELSE CStep("align", 0)
              /\ dpc' = "c_drive"
              /\ dwait' = "fall"
              /\ UNCHANGED <<result, fail_reason, loop_i, hist>>
    /\ UNCHANGED <<test, clock_vars, runnable, mon, reset_left, drain_cycles, instruction,
                   reg_vars, reservation, flush_vars, rfpc_queues, mw_queues, ram_bytes,
                   instr_params, expected_pc, coverage>>

\* after await FallingEdge: write the packed word, await RisingEdge
CompressedDrive ==
    /\ CDriver("c_drive")
    /\ instruction' = cur.op
    /\ cur' = CASE cur.phase = "target" -> CStep("drain", PIPELINE_DEPTH + 1)
                [] cur.phase = "align" -> cur
                [] OTHER -> CStep(cur.phase, cur.left - 1)
    /\ hist' = [hist EXCEPT !.align_wait = @ \/ cur.phase = "align"]
    /\ dpc' = "c_step"
    /\ dwait' = "rise"
    /\ UNCHANGED <<test, result, fail_reason, clock_vars, runnable, mon, loop_vars,
                   reg_vars, reservation, flush_vars, rfpc_queues, mw_queues, ram_bytes,
                   instr_params, expected_pc, coverage>>

Next ==
    \/ ClockEdge
    \/ MemMonitorBegin
    \/ MemMonitorResetWait
    \/ MemMonitorFall
    \/ MemMonitorSample
    \/ RegfileMonitorBegin
    \/ PcMonitorBegin
    \/ RegfileMonitorSample
    \/ PcMonitorSample
    \/ RandomInit
    \/ RandomStartClock
    \/ RandomStartMonitors
    \/ ResetBegin
    \/ ResetWait
    \/ RandomPostReset
    \/ RandomWarmupIssue
    \/ RandomWarmupAdvance
    \/ RandomLoopHead
    \/ RandomGenerate
    \/ RandomModel
    \/ RandomDrive
    \/ RandomAdvance
    \/ RandomComplete
    \/ RandomDrain
    \/ DirectedInit
    \/ DirectedStartClock
    \/ DirectedPostReset
    \/ DirectedNext
    \/ ExecutorCall
    \/ AtomicIssue
    \/ AtomicAdvance
    \/ CompressedInit
    \/ CompressedStartClock
    \/ CompressedPostReset
    \/ CompressedStep
    \/ CompressedDrive

Spec == Init /\ [][Next]_vars

\* The random regression with the scheduling cocotb and the simulator provide:
\* a runnable coroutine is eventually run and the clock keeps ticking.
LiveSpecRandom == InitRandom /\ [][NextRandom]_vars /\ WF_vars(NextRandom)

\* ======================================================================
\* Properties
\* ======================================================================

\* the step in which an SC.W is modelled and driven
ScStep == SDriver("issue") /\ cur.op = "sc.w" /\ dpc' = "advance"

\* rs1 value of the instruction being issued with bits [1:0] cleared
ScAddress == AlignWord(register_file_previous[cur.rs1])

\* the SC.W being issued queues a memory write, i.e. it succeeds
ScQueuesWrite ==
    Len(memory_write_address_expected_queue') = Len(memory_write_address_expected_queue) + 1

\* C1: an SC.W succeeds if and only if the reservation at that moment is its
\* word-aligned address, i.e. iff the most recent LR.W reserved the same
\* aligned word and no SC.W has been executed since; otherwise it fails.
C1_ScSucceedsIffReserved ==
    [][ ScStep =>
          /\ ScQueuesWrite <=> (reservation = {ScAddress})
          /\ ScQueuesWrite <=> (hist.last_lr = {ScAddress} /\ ~hist.sc_since_lr)
          /\ hist'.sc_success <=> ScQueuesWrite ]_vars

\* an SC.W through x10 has succeeded on the reservation an LR.W took through
\* x13, whose value is an unaligned address inside the same word
C1_Witness ==
    /\ test = "executor"
    /\ hist.last = "sc.w"
    /\ hist.sc_success
    /\ hist.lr_rs1 = 13
    /\ hist.sc_address = test_address_1
    /\ Len(memory_write_address_expected_queue) > 0

\* C2: after any SC.W, successful or not, the reservation is empty; so of two
\* SC.W with no LR.W between them the second always fails.
C2_ScClearsReservation ==
    /\ [](hist.sc_since_lr => reservation = {})
    /\ [][ ScStep => reservation' = {} ]_vars
    /\ [][ (ScStep /\ hist.sc_since_lr) => (~ScQueuesWrite /\ ~hist'.sc_success) ]_vars

\* a second SC.W to the word the last LR.W reserved has failed, because an
\* SC.W before it had emptied the reservation
C2_Witness ==
    /\ hist.last = "sc.w"
    /\ hist.sc_count >= 2
    /\ ~hist.sc_success
    /\ hist.last_lr = {hist.sc_address}
    /\ reservation = {}

\* C3: a succeeding SC.W (success of execute_sc true) appends exactly one expected write (aligned address,
\* rs2 value) to the memory-write queues, writes that word into the memory
\* model and predicts rd = 0; a failing SC.W predicts rd = 1 and leaves the
\* queues and the memory model unchanged (rd = x0 stays zero in both cases).
C3_ScWriteIffSuccess ==
    [][ ScStep =>
          LET data == register_file_previous[cur.rs2]
          IN  IF hist'.sc_success
              THEN /\ memory_write_address_expected_queue' =
                          Append(memory_write_address_expected_queue, ScAddress)
                   /\ memory_write_data_expected_queue' =
                          Append(memory_write_data_expected_queue, data)
                   /\ read_word(ram_bytes', ScAddress) = data
                   /\ register_file_current'[cur.rd] = Zero32
              ELSE /\ UNCHANGED <<memory_write_address_expected_queue,
                                  memory_write_data_expected_queue, ram_bytes>>
                   /\ register_file_current'[cur.rd] =
                          IF cur.rd = 0 THEN Zero32 ELSE W(0, 1) ]_vars

\* an SC.W has failed with rd = 1 after an earlier SC.W succeeded and stored
\* 0xDEADBEEF at test_address_1
C3_Witness ==
    /\ hist.last = "sc.w"
    /\ ~hist.sc_success
    /\ hist.sc_rd = 6
    /\ register_file_current[6] = W(0, 1)
    /\ read_word(ram_bytes, test_address_1) = test_data

\* the pairs enqueued and not yet removed for comparison
MwPending ==
    SubSeq(hist.mw_log, Len(hist.mw_cmp) + 1, Len(hist.mw_log))

\* the monitor's sampling step
MemSampleStep == mon["mem"] = "rise" /\ mon'["mem"] # "rise"

\* C4: the memory-write monitor compares the k-th write it samples with the
\* k-th pair the driver enqueued: the pairs it removed are a prefix of the
\* pairs enqueued, in the same order, the queues hold exactly the rest, and a
\* sampling step without a write removes nothing.
C4_MemoryMonitorFifo ==
    /\ [] /\ Len(hist.mw_cmp) <= Len(hist.mw_log)
          /\ hist.mw_cmp = SubSeq(hist.mw_log, 1, Len(hist.mw_cmp))
          /\ memory_write_address_expected_queue = [k \in 1 .. Len(MwPending) |-> MwPending[k][1]]
          /\ memory_write_data_expected_queue = [k \in 1 .. Len(MwPending) |-> MwPending[k][2]]
          /\ Len(hist.mw_cmp) <= hist.mw_seen
          /\ (fail_reason \notin {"mem_unexpected_write", "mem_index_error"}
                 => Len(hist.mw_cmp) = hist.mw_seen)
    /\ [][ (MemSampleStep /\ hist'.mw_seen = hist.mw_seen) =>
              UNCHANGED <<memory_write_address_expected_queue,
                          memory_write_data_expected_queue>> ]_vars

\* the monitor has compared its second write while a later, different pair was
\* still waiting behind it
C4_Witness ==
    /\ hist.mem_last = "mem_compare"
    /\ Len(hist.mw_cmp) = 2
    /\ hist.mw_cmp[1] # hist.mw_cmp[2]
    /\ Len(memory_write_address_expected_queue) >= 1
    /\ hist.mw_log[3] # hist.mw_cmp[2]
    /\ result = "running"

C6_OneExpectationPerInstruction ==
    /\ dpc # "drive" =>
          /\ hist.rf_appended = hist.issued
          /\ hist.pc_appended = hist.issued
    /\ dpc = "drive" =>
          /\ hist.rf_appended = hist.issued + 1
          /\ hist.pc_appended = hist.issued + 1
    /\ test \in {"directed", "executor"} =>
          /\ Len(register_file_current_expected_queue) = hist.issued
          /\ Len(program_counter_expected_values_queue) = hist.issued
          /\ \A k \in 1 .. Len(program_counter_expected_values_queue) :
                program_counter_expected_values_queue[k] = W(0, 4 * k)

\* the random regression has issued its warmup NOPs, a taken branch or jump,
\* a flush NOP and is waiting on the clock with equal counts
C6_Witness ==
    /\ test = "random"
    /\ hist.last = "flush_nop"
    /\ dpc = "advance"
    /\ hist.issued >= PIPELINE_DEPTH + 2
    /\ hist.rf_appended = hist.issued

\* the step that chooses the instruction of an iteration, and the step that
\* models it and queues its expectation
GenerateStep == RDriver("generate") /\ dpc' = "model"

ModelStep == RDriver("model") /\ dpc' = "drive"

\* C7: after a taken branch or jump the driver flushes for exactly
\* FLUSH_CYCLES consecutive iterations; each injects a NOP without calling the
\* random generator and queues one expectation with sequential PC and the
\* register file unchanged; random generation resumes when the counter is zero.
C7_FlushForThreeIterations ==
    /\ [] /\ flush_remaining \in 0 .. FLUSH_CYCLES
          /\ \/ hist.flush_run + flush_remaining = FLUSH_CYCLES
             \/ hist.flush_run = 0 /\ flush_remaining = 0
    /\ [][ GenerateStep =>
             IF flush_remaining > 0
             THEN /\ cur' = NopParams
                  /\ hist'.generated = hist.generated
                  /\ flush_remaining' = flush_remaining - 1
             ELSE /\ hist'.generated = hist.generated + 1
                  /\ cur' \in RandomInstructions
                  /\ flush_remaining' = 0 ]_vars
    /\ [][ (ModelStep /\ hist.last = "flush_nop") =>
             /\ program_counter_expected_values_queue' =
                    Append(program_counter_expected_values_queue,
                           AddMask32(program_counter_current, 4))
             /\ register_file_current_expected_queue' =
                    Append(register_file_current_expected_queue, register_file_previous)
             /\ register_file_current' = register_file_current ]_vars

\* three flush NOPs have followed a taken branch or jump and the generator has
\* been called again
C7_Witness ==
    /\ test = "random"
    /\ hist.flush_run = FLUSH_CYCLES
    /\ flush_remaining = 0
    /\ hist.last = "random"
    /\ dpc = "model"

\* C8: in the random regression every monitor has been started before the
\* first instruction is driven together with an expectation and before the
\* first entry is appended to any queue.
C8_MonitorsStartedFirst ==
    ( /\ test = "random"
      /\ \/ hist.issued > 0
         \/ hist.rf_appended > 0
         \/ hist.pc_appended > 0
         \/ hist.mw_appended > 0 )
    => \A m \in Monitors : mon[m] # "off"

\* the first warmup NOP has just been driven with all three monitors started
C8_Witness ==
    /\ test = "random"
    /\ hist.issued = 1
    /\ hist.rf_appended = 1
    /\ dpc = "warmup_adv"
    /\ \A m \in Monitors : mon[m] # "off"

\* the stores, LR.W and SC.W of the directed test
DirectedAtomicsAndStores ==
    SelectSeq(DirectedProgram, LAMBDA ins : ins.op \in {"sw", "lr.w", "sc.w"})

\* C9 as stated: every run of the random regression or of the directed test
\* that completes without failing has all four queues empty.
C9_AsStated ==
    (test \in {"random", "directed"} /\ result = "passed") => AllQueuesEmpty

\* C9 as the code has it: a random regression passes only with all four queues
\* empty and its drain phase fails it when entries remain; the directed test
\* starts no register-file or PC monitor and checks no queue at its end, so it
\* completes with its register-file and PC queues still holding at least the
\* entries of its stores, LR.W and SC.W.
C9_QueuesAtCompletion ==
    /\ (test = "random" /\ result = "passed") => AllQueuesEmpty
    /\ (test = "random" /\ fail_reason = "drain_timeout") => ~AllQueuesEmpty
    /\ (test = "directed" /\ result = "passed") =>
          /\ mon["rf"] = "off"
          /\ mon["pc"] = "off"
          /\ Len(register_file_current_expected_queue) >= Len(DirectedAtomicsAndStores)
          /\ Len(program_counter_expected_values_queue) >= Len(DirectedAtomicsAndStores)
          /\ Len(register_file_current_expected_queue) = hist.rf_appended
          /\ Len(program_counter_expected_values_queue) = hist.pc_appended

\* the directed test has passed with every write compared and its register-file
\* and PC queues full
C9_Witness ==
    /\ test = "directed"
    /\ result = "passed"
    /\ memory_write_address_expected_queue = <<>>
    /\ Len(register_file_current_expected_queue) >= Len(DirectedAtomicsAndStores)
    /\ ~AllQueuesEmpty

\* C10: the drain phase of the random regression terminates: it never waits
\* more cycles than its budget and, once entered, the run ends (passed with
\* empty queues, or failed).
C10_DrainTerminates ==
    /\ [](drain_cycles <= MaxDrainCycles)
    /\ (test = "random" /\ dpc = "drain") ~> (result # "running")

\* the drain phase has used its whole budget and stopped the run
C10_Witness ==
    /\ test = "random"
    /\ dpc = "drain"
    /\ drain_cycles = MaxDrainCycles
    /\ fail_reason = "drain_timeout"
    /\ ~AllQueuesEmpty

\* the memory-write monitor has found a write that differs from its expectation
MemMismatch == fail_reason \in {"mem_addr_mismatch", "mem_data_mismatch"}

\* C11: on a mismatch the monitor raises a MismatchError carrying the channel
\* name, the expected value, the actual value and the logical cycle number,
\* and the run stops there.
C11_AsStated ==
    MemMismatch =>
        /\ result = "failed"
        /\ hist.exc.type = "MismatchError"
        /\ {"channel", "expected", "actual", "cycle"} \subseteq hist.exc.carries

\* an instruction whose destination is x0 and whose write-back value is not
\* zero has been modelled: a failing SC.W with rd = x0 (value 1), or a JAL
\* with rd = x0 (link value pc + 4) in the random test
X0WriteDiscarded ==
    \/ /\ test = "executor"
       /\ hist.last = "sc.w"
       /\ hist.sc_rd = 0
       /\ ~hist.sc_success
    \/ /\ test = "random"
       /\ dpc = "drive"
       /\ cur.op = "jal"
       /\ cur.rd = 0

\* C12: register x0 of the model register file is never modified: the result
\* of an instruction whose destination is x0 is discarded, entry 0 of
\* register_file_current (and of its previous-cycle copy) stays 0, and every
\* snapshot queued for the register-file monitor has entry 0 equal to 0.
C12_X0NeverModified ==
    /\ register_file_current[0] = Zero32
    /\ register_file_previous[0] = Zero32
    /\ \A k \in 1..Len(register_file_current_expected_queue) :
           register_file_current_expected_queue[k][0] = Zero32

C12_Witness ==
    /\ X0WriteDiscarded
    /\ Len(register_file_current_expected_queue) > 0
    /\ register_file_current[0] = Zero32

\* a step that issues an LR.W or an SC.W
AtomicStep == SDriver("issue") /\ cur.op \in {"lr.w", "sc.w"} /\ dpc' = "advance"

\* C13: a reservation set by LR.W stays valid across any number of intervening
\* instructions other than LR.W and SC.W (NOPs and stores, including a store
\* to the reserved word): no such step changes the reservation, and the next
\* SC.W to the same word-aligned address succeeds.
C13_ReservationPersists ==
    /\ [][ ~AtomicStep => reservation' = reservation ]_vars
    /\ [][ (ScStep /\ hist.last_lr = {ScAddress} /\ ~hist.sc_since_lr) =>
             /\ hist'.sc_success
             /\ ScQueuesWrite
             /\ register_file_current'[cur.rd] =
                    IF cur.rd = 0 THEN Zero32 ELSE ScResultValue(TRUE) ]_vars

\* an SC.W has succeeded after a NOP and a store to the reserved word were
\* issued between it and its LR.W
C13_Witness ==
    /\ hist.last = "sc.w"
    /\ hist.sc_success
    /\ {"nop", "store_reserved"} \subseteq hist.since_lr

\* a step in which the driver writes an instruction word to the DUT together
\* with its expectation (dut_if.instruction = ...)
InstructionDriven ==
    /\ hist'.issued = hist.issued + 1
    /\ hist'.port_writes = hist.port_writes + 1

\* the driver's most recent clock edge was a falling one: it runs in the low
\* phase of the clock, before the next rising edge
AfterFallingEdge == clock_started /\ clk = 0

\* C14: every instruction word the driver writes to the DUT (warmup NOPs, the
\* first and all later main-loop instructions, directed-test instructions) is
\* written after the driver has awaited a falling clock edge and before the
\* next rising edge.
C14_AsStated == [][ InstructionDriven => AfterFallingEdge ]_vars

\* the same, for the instructions of the directed test and of the executor
\* client only
C14_DirectedOnly ==
    [][ (InstructionDriven /\ test \in {"directed", "executor"}) => AfterFallingEdge ]_vars

\* ------------------------------------------------- encoders/op_tables.py
\* instruction_encode.enc_r / enc_i: the R and I formats, as a 32-bit word
\* (opcode 0x33 = 51 and 0x13 = 19 in bits 6:0, rd 11:7, funct3 14:12,
\* rs1 19:15, rs2 24:20 / imm 31:20, funct7 31:25)
enc_r(f7, rs2, rs1, f3, rd) ==
    W(f7 * 512 + rs2 * 16 + (rs1 \div 2),
      (rs1 % 2) * 32768 + f3 * 4096 + rd * 128 + 51)

enc_i(imm, rs1, f3, rd) ==
    W(((imm + 4096) % 4096) * 16 + (rs1 \div 2),
      (rs1 % 2) * 32768 + f3 * 4096 + rd * 128 + 19)

\* the encoder factories
make_r_encoder(f7, f3, rd, rs1, rs2) == enc_r(f7, rs2, rs1, f3, rd)

make_i_encoder(f3, rd, rs1, imm) == enc_i(imm, rs1, f3, rd)

\* (sh & 0x1F) | (f7 << 5)
make_i_shift_encoder(f3, f7, rd, rs1, sh) == enc_i((sh % 32) + f7 * 32, rs1, f3, rd)

make_i_unary_encoder(f3, f7, rs2_field, rd, rs1) ==
    enc_i((rs2_field % 32) + f7 * 32, rs1, f3, rd)

make_i_fixed_encoder(f3, f7, rs2_field, rd, rs1) ==
    enc_i((rs2_field % 32) + f7 * 32, rs1, f3, rd)

make_r_unary_encoder(f7, f3, rd, rs1) == enc_r(f7, 0, rs1, f3, rd)

\* R_ALU with the funct7/funct3 of xnor mistyped as those of orn
R_ALU_XnorAsOrn ==
    "add" :> <<0, 0>> @@
    "sub" :> <<32, 0>> @@
    "and" :> <<0, 7>> @@
    "or" :> <<0, 6>> @@
    "xor" :> <<0, 4>> @@
    "sll" :> <<0, 1>> @@
    "srl" :> <<0, 5>> @@
    "sra" :> <<32, 5>> @@
    "slt" :> <<0, 2>> @@
    "sltu" :> <<0, 3>> @@
    "mul" :> <<1, 0>> @@
    "mulh" :> <<1, 1>> @@
    "mulhsu" :> <<1, 2>> @@
    "mulhu" :> <<1, 3>> @@
    "div" :> <<1, 4>> @@
    "divu" :> <<1, 5>> @@
    "rem" :> <<1, 6>> @@
    "remu" :> <<1, 7>> @@
    "sh1add" :> <<16, 2>> @@
    "sh2add" :> <<16, 4>> @@
    "sh3add" :> <<16, 6>> @@
    "bset" :> <<20, 1>> @@
    "bclr" :> <<36, 1>> @@
    "binv" :> <<52, 1>> @@
    "bext" :> <<36, 5>> @@
    "andn" :> <<32, 7>> @@
    "orn" :> <<32, 6>> @@
    "xnor" :> <<32, 6>> @@
    "max" :> <<5, 6>> @@
    "maxu" :> <<5, 7>> @@
    "min" :> <<5, 4>> @@
    "minu" :> <<5, 5>> @@
    "rol" :> <<48, 1>> @@
    "ror" :> <<48, 5>> @@
    "czero.eqz" :> <<7, 5>> @@
    "czero.nez" :> <<7, 7>> @@
    "pack" :> <<4, 4>> @@
    "packh" :> <<4, 7>>

\* R_ALU: mnemonic -> (funct7, funct3) of make_r_encoder
R_ALU ==
    "add" :> <<0, 0>> @@
    "sub" :> <<32, 0>> @@
    "and" :> <<0, 7>> @@
    "or" :> <<0, 6>> @@
    "xor" :> <<0, 4>> @@
    "sll" :> <<0, 1>> @@
    "srl" :> <<0, 5>> @@
    "sra" :> <<32, 5>> @@
    "slt" :> <<0, 2>> @@
    "sltu" :> <<0, 3>> @@
    "mul" :> <<1, 0>> @@
    "mulh" :> <<1, 1>> @@
    "mulhsu" :> <<1, 2>> @@
    "mulhu" :> <<1, 3>> @@
    "div" :> <<1, 4>> @@
    "divu" :> <<1, 5>> @@
    "rem" :> <<1, 6>> @@
    "remu" :> <<1, 7>> @@
    "sh1add" :> <<16, 2>> @@
    "sh2add" :> <<16, 4>> @@
    "sh3add" :> <<16, 6>> @@
    "bset" :> <<20, 1>> @@
    "bclr" :> <<36, 1>> @@
    "binv" :> <<52, 1>> @@
    "bext" :> <<36, 5>> @@
    "andn" :> <<32, 7>> @@
    "orn" :> <<32, 6>> @@
    "xnor" :> <<32, 4>> @@
    "max" :> <<5, 6>> @@
    "maxu" :> <<5, 7>> @@
    "min" :> <<5, 4>> @@
    "minu" :> <<5, 5>> @@
    "rol" :> <<48, 1>> @@
    "ror" :> <<48, 5>> @@
    "czero.eqz" :> <<7, 5>> @@
    "czero.nez" :> <<7, 7>> @@
    "pack" :> <<4, 4>> @@
    "packh" :> <<4, 7>>

\* I_ALU: mnemonic -> factory, funct3, funct7
I_ALU ==
    "addi" :> <<"make_i_encoder", 0, 0>> @@
    "andi" :> <<"make_i_encoder", 7, 0>> @@
    "ori" :> <<"make_i_encoder", 6, 0>> @@
    "xori" :> <<"make_i_encoder", 4, 0>> @@
    "slli" :> <<"make_i_shift_encoder", 1, 0>> @@
    "srli" :> <<"make_i_shift_encoder", 5, 0>> @@
    "srai" :> <<"make_i_shift_encoder", 5, 32>> @@
    "slti" :> <<"make_i_encoder", 2, 0>> @@
    "sltiu" :> <<"make_i_encoder", 3, 0>> @@
    "bseti" :> <<"make_i_shift_encoder", 1, 20>> @@
    "bclri" :> <<"make_i_shift_encoder", 1, 36>> @@
    "binvi" :> <<"make_i_shift_encoder", 1, 52>> @@
    "bexti" :> <<"make_i_shift_encoder", 5, 36>> @@
    "rori" :> <<"make_i_shift_encoder", 5, 48>>

\* I_UNARY: mnemonic -> factory and its arguments
I_UNARY ==
    "clz" :> <<"make_i_unary_encoder", 1, 48, 0>> @@
    "ctz" :> <<"make_i_unary_encoder", 1, 48, 1>> @@
    "cpop" :> <<"make_i_unary_encoder", 1, 48, 2>> @@
    "sext.b" :> <<"make_i_unary_encoder", 1, 48, 4>> @@
    "sext.h" :> <<"make_i_unary_encoder", 1, 48, 5>> @@
    "zext.h" :> <<"make_r_unary_encoder", 4, 4, 0>> @@
    "orc.b" :> <<"make_i_fixed_encoder", 5, 20, 7>> @@
    "rev8" :> <<"make_i_fixed_encoder", 5, 52, 24>> @@
    "brev8" :> <<"make_i_fixed_encoder", 5, 52, 7>> @@
    "zip" :> <<"make_i_fixed_encoder", 1, 4, 15>> @@
    "unzip" :> <<"make_i_fixed_encoder", 5, 4, 15>>

\* the word the registry's encoder of mnemonic m produces for operands ops
Encode(m, ops) ==
    IF m \in DOMAIN R_ALU
    THEN make_r_encoder(R_ALU[m][1], R_ALU[m][2], ops[1], ops[2], ops[3])
    ELSE IF m \in DOMAIN I_ALU
    THEN IF I_ALU[m][1] = "make_i_encoder"
         THEN make_i_encoder(I_ALU[m][2], ops[1], ops[2], ops[3])
         ELSE make_i_shift_encoder(I_ALU[m][2], I_ALU[m][3], ops[1], ops[2], ops[3])
    ELSE CASE I_UNARY[m][1] = "make_i_unary_encoder" ->
                make_i_unary_encoder(I_UNARY[m][2], I_UNARY[m][3], I_UNARY[m][4],
                                     ops[1], ops[2])
           [] I_UNARY[m][1] = "make_i_fixed_encoder" ->
                make_i_fixed_encoder(I_UNARY[m][2], I_UNARY[m][3], I_UNARY[m][4],
                                     ops[1], ops[2])
           [] I_UNARY[m][1] = "make_r_unary_encoder" ->
                make_r_unary_encoder(I_UNARY[m][2], I_UNARY[m][3], ops[1], ops[2])

\* legal operands: registers, signed 12-bit immediates, 5-bit shift amounts
EncRegs == {0, 1, 31}

EncImms == {-2048, -1, 0, 1, 2047}

EncShifts == {0, 1, 31}

EncCall(m, ops) == [m |-> m, ops |-> ops]

\* every (mnemonic, operands) pair of the three tables over these operands
Registry ==
    { EncCall(m, <<rd, rs1, rs2>>) :
          m \in DOMAIN R_ALU, rd \in EncRegs, rs1 \in EncRegs, rs2 \in EncRegs }
    \cup { EncCall(m, <<rd, rs1, x>>) :
          m \in {k \in DOMAIN I_ALU : I_ALU[k][1] = "make_i_encoder"},
          rd \in EncRegs, rs1 \in EncRegs, x \in EncImms }
    \cup { EncCall(m, <<rd, rs1, x>>) :
          m \in {k \in DOMAIN I_ALU : I_ALU[k][1] = "make_i_shift_encoder"},
          rd \in EncRegs, rs1 \in EncRegs, x \in EncShifts }
    \cup { EncCall(m, <<rd, rs1>>) :
          m \in DOMAIN I_UNARY, rd \in EncRegs, rs1 \in EncRegs }

\* decode: the (mnemonic, operands) pairs of the registry a word stands for
Decode(w) == { c \in Registry : Encode(c.m, c.ops) = w }

\* The state before a pure function is applied to the arguments held in cur
PureInit(t, inputs) ==
    /\ test = t
    /\ cur \in inputs
    /\ result = "running"
    /\ fail_reason = ""
    /\ clk = 0
    /\ clock_started = FALSE
    /\ i_rst = FALSE
    /\ o_vld = FALSE
    /\ dwait = "run"
    /\ dpc = "init"
    /\ runnable = {}
    /\ mon = [m \in Monitors |-> "off"]
    /\ loop_i = 0
    /\ reset_left = 0
    /\ drain_cycles = 0
    /\ instruction = "x"
    /\ register_file_current = ZeroRegfile
    /\ register_file_previous = ZeroRegfile
    /\ program_counter_current = Zero32
    /\ reservation = {}
    /\ flush_remaining = 0
    /\ branch_taken_current = FALSE
    /\ register_file_current_expected_queue = <<>>
    /\ program_counter_expected_values_queue = <<>>
    /\ memory_write_address_expected_queue = <<>>
    /\ memory_write_data_expected_queue = <<>>
    /\ ram_bytes = <<>>
    /\ instr_params = NopParams
    /\ expected_pc = Zero32
    /\ coverage = [m \in Mnemonics |-> 0]
    /\ hist = HistInit

\* encoder, _ = TABLE[m]; instruction = encoder(*ops)
EncodeCall ==
    /\ test = "encode"
    /\ dpc = "init"
    /\ instruction' = Encode(cur.m, cur.ops)
    /\ dpc' = "done"
    /\ UNCHANGED <<test, result, fail_reason, clock_vars, dwait, runnable, mon, loop_vars,
                   reg_vars, reservation, flush_vars, rfpc_queues, mw_queues, ram_bytes,
                   iter_vars, hist>>

InitEncode == PureInit("encode", Registry)

NextEncode == EncodeCall

SpecEncode == InitEncode /\ [][NextEncode]_vars

\* the registry's encoder has been applied to the operands in cur
Encoded == test = "encode" /\ dpc = "done"

\* zext.h rd, rs1 and pack rd, rs1, x0 are one instruction
ZextAlias(c) ==
    CASE c.m = "zext.h" -> {EncCall("pack", <<c.ops[1], c.ops[2], 0>>)}
      [] c.m = "pack" /\ c.ops[3] = 0 -> {EncCall("zext.h", <<c.ops[1], c.ops[2]>>)}
      [] OTHER -> {}

\* C15: for every legal mnemonic and operand combination of the operation
\* tables decode(encode(m, ops)) = (m, ops): no two distinct (mnemonic,
\* operands) pairs are encoded to the same machine word.
C15_AsStated == Encoded => Decode(instruction) = {cur}

\* C15 as amended: the word identifies the mnemonic and the operands, except
\* that zext.h rd, rs1 and pack rd, rs1, x0 are encoded to the same word.
C15_RoundTripUpToZextH == Encoded => Decode(instruction) = {cur} \cup ZextAlias(cur)

C15_Witness ==
    /\ Encoded
    /\ cur.m = "zext.h"
    /\ Cardinality(Decode(instruction)) = 2

\* --------------------------------------------- encoders/compressed_encode.py
\* x >> n and x & mask for a mask of the form 2^k - 1 (the only masks used)
Shr(x, n) == x \div (2 ^ n)

AndMask(x, mask) == ((x % (mask + 1)) + (mask + 1)) % (mask + 1)

RECURSIVE BitOr(_, _)
BitOr(a, b) ==
    IF a = 0 THEN b
    ELSE IF b = 0 THEN a
    ELSE (IF a % 2 = 1 \/ b % 2 = 1 THEN 1 ELSE 0) + 2 * BitOr(a \div 2, b \div 2)

\* CompressedEncoder._pack_bits: result |= (value & mask) << position
RECURSIVE PackFrom(_, _, _)
PackFrom(fields, k, acc) ==
    IF k > Len(fields) THEN acc
    ELSE PackFrom(fields, k + 1,
                  BitOr(acc, AndMask(fields[k][1], fields[k][3]) * (2 ^ fields[k][2])))

pack_bits(fields) == PackFrom(fields, 1, 0)

\* what a call of an encoder gives: the word returned and the fields packed
\* into it, or the exception raised
Returned(w) == [exc |-> "none", word |-> w, fields |-> <<>>]

Raised(e) == [exc |-> e, word |-> 0, fields |-> <<>>]

\* the assert statements at the head of an encoder, then its _pack_bits call
Asserted(ok, fields) ==
    IF ok THEN [exc |-> "none", word |-> pack_bits(fields), fields |-> fields]
    ELSE Raised("AssertionError")

\* a register field two bits wide
compress_reg_two_bits(reg) == reg % 4

\* compress_reg: x8..x15 to the 3-bit field (each caller has asserted the range)
compress_reg(reg) == reg - 8

enc_c_addi4spn(rd_prime, nzuimm) ==
    LET imm == nzuimm
    IN  Asserted((8 <= rd_prime /\ rd_prime <= 15) /\
                 (nzuimm # 0 /\ (nzuimm % 4) = 0) /\
                 (4 <= nzuimm /\ nzuimm <= 1020),
        << <<AndMask(Shr(imm, 4), 3), 11, 3>>,
           <<AndMask(Shr(imm, 6), 15), 7, 15>>,
           <<AndMask(Shr(imm, 2), 1), 6, 1>>,
           <<AndMask(Shr(imm, 3), 1), 5, 1>>,
           <<compress_reg(rd_prime), 2, 7>>,
           <<0, 0, 3>> >>)

enc_c_lw(rd_prime, rs1_prime, uimm) ==
    Asserted((8 <= rd_prime /\ rd_prime <= 15 /\ 8 <= rs1_prime /\ rs1_prime <= 15) /\
                 ((uimm % 4) = 0 /\ 0 <= uimm /\ uimm <= 124),
        << <<2, 13, 7>>,
           <<AndMask(Shr(uimm, 6), 1), 5, 1>>,
           <<AndMask(Shr(uimm, 3), 7), 10, 7>>,
           <<compress_reg(rs1_prime), 7, 7>>,
           <<AndMask(Shr(uimm, 2), 1), 6, 1>>,
           <<compress_reg(rd_prime), 2, 7>>,
           <<0, 0, 3>> >>)

enc_c_sw(rs1_prime, rs2_prime, uimm) ==
    Asserted((8 <= rs1_prime /\ rs1_prime <= 15 /\ 8 <= rs2_prime /\ rs2_prime <= 15) /\
                 ((uimm % 4) = 0 /\ 0 <= uimm /\ uimm <= 124),
        << <<6, 13, 7>>,
           <<AndMask(Shr(uimm, 6), 1), 5, 1>>,
           <<AndMask(Shr(uimm, 3), 7), 10, 7>>,
           <<compress_reg(rs1_prime), 7, 7>>,
           <<AndMask(Shr(uimm, 2), 1), 6, 1>>,
           <<compress_reg(rs2_prime), 2, 7>>,
           <<0, 0, 3>> >>)

enc_c_nop == 1

enc_c_addi(rd, nzimm) ==
    LET imm6 == AndMask(nzimm, 63)
    IN  Asserted((0 <= rd /\ rd <= 31) /\
                 (-32 <= nzimm /\ nzimm <= 31),
        << <<0, 13, 7>>,
           <<AndMask(Shr(imm6, 5), 1), 12, 1>>,
           <<rd, 7, 31>>,
           <<AndMask(imm6, 31), 2, 31>>,
           <<1, 0, 3>> >>)

enc_c_jal(imm) ==
    LET imm12 == AndMask(imm, 4095)
    IN  Asserted(((imm % 2) = 0) /\
                 (-2048 <= imm /\ imm <= 2046),
        << <<1, 13, 7>>,
           <<AndMask(Shr(imm12, 11), 1), 12, 1>>,
           <<AndMask(Shr(imm12, 4), 1), 11, 1>>,
           <<AndMask(Shr(imm12, 8), 3), 9, 3>>,
           <<AndMask(Shr(imm12, 10), 1), 8, 1>>,
           <<AndMask(Shr(imm12, 6), 1), 7, 1>>,
           <<AndMask(Shr(imm12, 7), 1), 6, 1>>,
           <<AndMask(Shr(imm12, 1), 7), 3, 7>>,
           <<AndMask(Shr(imm12, 5), 1), 2, 1>>,
           <<1, 0, 3>> >>)

enc_c_li(rd, imm) ==
    LET imm6 == AndMask(imm, 63)
    IN  Asserted((1 <= rd /\ rd <= 31) /\
                 (-32 <= imm /\ imm <= 31),
        << <<2, 13, 7>>,
           <<AndMask(Shr(imm6, 5), 1), 12, 1>>,
           <<rd, 7, 31>>,
           <<AndMask(imm6, 31), 2, 31>>,
           <<1, 0, 3>> >>)

enc_c_lui(rd, nzimm) ==
    LET imm6 == AndMask(nzimm, 63)
    IN  Asserted((1 <= rd /\ rd <= 31 /\ rd # 2) /\
                 (nzimm # 0) /\
                 (-32 <= nzimm /\ nzimm <= 31),
        << <<3, 13, 7>>,
           <<AndMask(Shr(imm6, 5), 1), 12, 1>>,
           <<rd, 7, 31>>,
           <<AndMask(imm6, 31), 2, 31>>,
           <<1, 0, 3>> >>)

enc_c_addi16sp(nzimm) ==
    LET imm == AndMask(nzimm, 1023)
    IN  Asserted((nzimm # 0 /\ (nzimm % 16) = 0) /\
                 (-512 <= nzimm /\ nzimm <= 496),
        << <<3, 13, 7>>,
           <<AndMask(Shr(imm, 9), 1), 12, 1>>,
           <<2, 7, 31>>,
           <<AndMask(Shr(imm, 4), 1), 6, 1>>,
           <<AndMask(Shr(imm, 6), 1), 5, 1>>,
           <<AndMask(Shr(imm, 7), 3), 3, 3>>,
           <<AndMask(Shr(imm, 5), 1), 2, 1>>,
           <<1, 0, 3>> >>)

enc_c_srli(rd_prime, shamt) ==
    Asserted((8 <= rd_prime /\ rd_prime <= 15) /\
                 (1 <= shamt /\ shamt <= 31),
        << <<4, 13, 7>>,
           <<0, 12, 1>>,
           <<0, 10, 3>>,
           <<compress_reg(rd_prime), 7, 7>>,
           <<AndMask(shamt, 31), 2, 31>>,
           <<1, 0, 3>> >>)

enc_c_srai(rd_prime, shamt) ==
    Asserted((8 <= rd_prime /\ rd_prime <= 15) /\
                 (1 <= shamt /\ shamt <= 31),
        << <<4, 13, 7>>,
           <<0, 12, 1>>,
           <<1, 10, 3>>,
           <<compress_reg(rd_prime), 7, 7>>,
           <<AndMask(shamt, 31), 2, 31>>,
           <<1, 0, 3>> >>)

enc_c_andi(rd_prime, imm) ==
    LET imm6 == AndMask(imm, 63)
    IN  Asserted((8 <= rd_prime /\ rd_prime <= 15) /\
                 (-32 <= imm /\ imm <= 31),
        << <<4, 13, 7>>,
           <<AndMask(Shr(imm6, 5), 1), 12, 1>>,
           <<2, 10, 3>>,
           <<compress_reg(rd_prime), 7, 7>>,
           <<AndMask(imm6, 31), 2, 31>>,
           <<1, 0, 3>> >>)

enc_c_sub(rd_prime, rs2_prime) ==
    Asserted((8 <= rd_prime /\ rd_prime <= 15 /\ 8 <= rs2_prime /\ rs2_prime <= 15),
        << <<4, 13, 7>>,
           <<0, 12, 1>>,
           <<3, 10, 3>>,
           <<compress_reg(rd_prime), 7, 7>>,
           <<0, 5, 3>>,
           <<compress_reg(rs2_prime), 2, 7>>,
           <<1, 0, 3>> >>)

enc_c_xor(rd_prime, rs2_prime) ==
    Asserted((8 <= rd_prime /\ rd_prime <= 15 /\ 8 <= rs2_prime /\ rs2_prime <= 15),
        << <<4, 13, 7>>,
           <<0, 12, 1>>,
           <<3, 10, 3>>,
           <<compress_reg(rd_prime), 7, 7>>,
           <<1, 5, 3>>,
           <<compress_reg(rs2_prime), 2, 7>>,
           <<1, 0, 3>> >>)

enc_c_or(rd_prime, rs2_prime) ==
    Asserted((8 <= rd_prime /\ rd_prime <= 15 /\ 8 <= rs2_prime /\ rs2_prime <= 15),
        << <<4, 13, 7>>,
           <<0, 12, 1>>,
           <<3, 10, 3>>,
           <<compress_reg(rd_prime), 7, 7>>,
           <<2, 5, 3>>,
           <<compress_reg(rs2_prime), 2, 7>>,
           <<1, 0, 3>> >>)

enc_c_and(rd_prime, rs2_prime) ==
    Asserted((8 <= rd_prime /\ rd_prime <= 15 /\ 8 <= rs2_prime /\ rs2_prime <= 15),
        << <<4, 13, 7>>,
           <<0, 12, 1>>,
           <<3, 10, 3>>,
           <<compress_reg(rd_prime), 7, 7>>,
           <<3, 5, 3>>,
           <<compress_reg(rs2_prime), 2, 7>>,
           <<1, 0, 3>> >>)

enc_c_j(imm) ==
    LET imm12 == AndMask(imm, 4095)
    IN  Asserted(((imm % 2) = 0) /\
                 (-2048 <= imm /\ imm <= 2046),
        << <<5, 13, 7>>,
           <<AndMask(Shr(imm12, 11), 1), 12, 1>>,
           <<AndMask(Shr(imm12, 4), 1), 11, 1>>,
           <<AndMask(Shr(imm12, 8), 3), 9, 3>>,
           <<AndMask(Shr(imm12, 10), 1), 8, 1>>,
           <<AndMask(Shr(imm12, 6), 1), 7, 1>>,
           <<AndMask(Shr(imm12, 7), 1), 6, 1>>,
           <<AndMask(Shr(imm12, 1), 7), 3, 7>>,
           <<AndMask(Shr(imm12, 5), 1), 2, 1>>,
           <<1, 0, 3>> >>)

enc_c_beqz(rs1_prime, imm) ==
    LET imm9 == AndMask(imm, 511)
    IN  Asserted((8 <= rs1_prime /\ rs1_prime <= 15) /\
                 ((imm % 2) = 0) /\
                 (-256 <= imm /\ imm <= 254),
        << <<6, 13, 7>>,
           <<AndMask(Shr(imm9, 8), 1), 12, 1>>,
           <<AndMask(Shr(imm9, 3), 3), 10, 3>>,
           <<compress_reg(rs1_prime), 7, 7>>,
           <<AndMask(Shr(imm9, 6), 3), 5, 3>>,
           <<AndMask(Shr(imm9, 1), 3), 3, 3>>,
           <<AndMask(Shr(imm9, 5), 1), 2, 1>>,
           <<1, 0, 3>> >>)

enc_c_bnez(rs1_prime, imm) ==
    LET imm9 == AndMask(imm, 511)
    IN  Asserted((8 <= rs1_prime /\ rs1_prime <= 15) /\
                 ((imm % 2) = 0) /\
                 (-256 <= imm /\ imm <= 254),
        << <<7, 13, 7>>,
           <<AndMask(Shr(imm9, 8), 1), 12, 1>>,
           <<AndMask(Shr(imm9, 3), 3), 10, 3>>,
           <<compress_reg(rs1_prime), 7, 7>>,
           <<AndMask(Shr(imm9, 6), 3), 5, 3>>,
           <<AndMask(Shr(imm9, 1), 3), 3, 3>>,
           <<AndMask(Shr(imm9, 5), 1), 2, 1>>,
           <<1, 0, 3>> >>)

enc_c_slli(rd, shamt) ==
    Asserted((1 <= rd /\ rd <= 31) /\
                 (1 <= shamt /\ shamt <= 31),
        << <<0, 13, 7>>,
           <<0, 12, 1>>,
           <<rd, 7, 31>>,
           <<AndMask(shamt, 31), 2, 31>>,
           <<2, 0, 3>> >>)

enc_c_lwsp(rd, uimm) ==
    Asserted((1 <= rd /\ rd <= 31) /\
                 ((uimm % 4) = 0 /\ 0 <= uimm /\ uimm <= 252),
        << <<2, 13, 7>>,
           <<AndMask(Shr(uimm, 5), 1), 12, 1>>,
           <<rd, 7, 31>>,
           <<AndMask(Shr(uimm, 2), 7), 4, 7>>,
           <<AndMask(Shr(uimm, 6), 3), 2, 3>>,
           <<2, 0, 3>> >>)

enc_c_jr(rs1) ==
    Asserted((1 <= rs1 /\ rs1 <= 31),
        << <<4, 13, 7>>,
           <<0, 12, 1>>,
           <<rs1, 7, 31>>,
           <<0, 2, 31>>,
           <<2, 0, 3>> >>)

enc_c_mv(rd, rs2) ==
    Asserted((1 <= rd /\ rd <= 31 /\ 1 <= rs2 /\ rs2 <= 31),
        << <<4, 13, 7>>,
           <<0, 12, 1>>,
           <<rd, 7, 31>>,
           <<rs2, 2, 31>>,
           <<2, 0, 3>> >>)

enc_c_ebreak == 36866

enc_c_jalr(rs1) ==
    Asserted((1 <= rs1 /\ rs1 <= 31),
        << <<4, 13, 7>>,
           <<1, 12, 1>>,
           <<rs1, 7, 31>>,
           <<0, 2, 31>>,
           <<2, 0, 3>> >>)

enc_c_add(rd, rs2) ==
    Asserted((1 <= rd /\ rd <= 31 /\ 1 <= rs2 /\ rs2 <= 31),
        << <<4, 13, 7>>,
           <<1, 12, 1>>,
           <<rd, 7, 31>>,
           <<rs2, 2, 31>>,
           <<2, 0, 3>> >>)

enc_c_swsp(rs2, uimm) ==
    Asserted((0 <= rs2 /\ rs2 <= 31) /\
                 ((uimm % 4) = 0 /\ 0 <= uimm /\ uimm <= 252),
        << <<6, 13, 7>>,
           <<AndMask(Shr(uimm, 2), 15), 9, 15>>,
           <<AndMask(Shr(uimm, 6), 3), 7, 3>>,
           <<rs2, 2, 31>>,
           <<2, 0, 3>> >>)


\* registers tried for a 3-bit field and for a 5-bit field: every bit of the
\* field set and cleared, and one step beyond each end of the range
CRegsPrime == {7, 8, 10, 13, 15, 16}

CRegsFull == {-1, 0, 1, 2, 8, 21, 31, 32}

\* the mnemonics of the compressed encoders
CMnemonics ==
    { "c.addi4spn", "c.lw", "c.sw", "c.nop", "c.addi", "c.jal", "c.li", "c.lui",
      "c.addi16sp", "c.srli", "c.srai", "c.andi", "c.sub", "c.xor", "c.or", "c.and",
      "c.j", "c.beqz", "c.bnez", "c.slli", "c.lwsp", "c.jr", "c.mv", "c.ebreak",
      "c.jalr", "c.add", "c.swsp" }

\* the compressed encoder of mnemonic m applied to operands ops
CEncode(m, ops) ==
    CASE m = "c.addi4spn" -> enc_c_addi4spn(ops[1], ops[2])
      [] m = "c.lw" -> enc_c_lw(ops[1], ops[2], ops[3])
      [] m = "c.sw" -> enc_c_sw(ops[1], ops[2], ops[3])
      [] m = "c.nop" -> Returned(enc_c_nop)
      [] m = "c.addi" -> enc_c_addi(ops[1], ops[2])
      [] m = "c.jal" -> enc_c_jal(ops[1])
      [] m = "c.li" -> enc_c_li(ops[1], ops[2])
      [] m = "c.lui" -> enc_c_lui(ops[1], ops[2])
      [] m = "c.addi16sp" -> enc_c_addi16sp(ops[1])
      [] m = "c.srli" -> enc_c_srli(ops[1], ops[2])
      [] m = "c.srai" -> enc_c_srai(ops[1], ops[2])
      [] m = "c.andi" -> enc_c_andi(ops[1], ops[2])
      [] m = "c.sub" -> enc_c_sub(ops[1], ops[2])
      [] m = "c.xor" -> enc_c_xor(ops[1], ops[2])
      [] m = "c.or" -> enc_c_or(ops[1], ops[2])
      [] m = "c.and" -> enc_c_and(ops[1], ops[2])
      [] m = "c.j" -> enc_c_j(ops[1])
      [] m = "c.beqz" -> enc_c_beqz(ops[1], ops[2])
      [] m = "c.bnez" -> enc_c_bnez(ops[1], ops[2])
      [] m = "c.slli" -> enc_c_slli(ops[1], ops[2])
      [] m = "c.lwsp" -> enc_c_lwsp(ops[1], ops[2])
      [] m = "c.jr" -> enc_c_jr(ops[1])
      [] m = "c.mv" -> enc_c_mv(ops[1], ops[2])
      [] m = "c.ebreak" -> Returned(enc_c_ebreak)
      [] m = "c.jalr" -> enc_c_jalr(ops[1])
      [] m = "c.add" -> enc_c_add(ops[1], ops[2])
      [] m = "c.swsp" -> enc_c_swsp(ops[1], ops[2])

\* every call tried: each immediate over its range and one step beyond it,
\* each register over the sets given
CCalls(rp, rf) ==
    { EncCall("c.addi4spn", <<x1, x2>>) : x1 \in rp, x2 \in (0 .. 1024) }
    \cup { EncCall("c.lw", <<x1, x2, x3>>) : x1 \in rp, x2 \in rp, x3 \in (-1 .. 128) }
    \cup { EncCall("c.sw", <<x1, x2, x3>>) : x1 \in rp, x2 \in rp, x3 \in (-1 .. 128) }
    \cup { EncCall("c.nop", <<>>) }
    \cup { EncCall("c.addi", <<x1, x2>>) : x1 \in rf, x2 \in (-33 .. 32) }
    \cup { EncCall("c.jal", <<x1>>) : x1 \in (-2050 .. 2048) }
    \cup { EncCall("c.li", <<x1, x2>>) : x1 \in rf, x2 \in (-33 .. 32) }
    \cup { EncCall("c.lui", <<x1, x2>>) : x1 \in rf, x2 \in (-33 .. 32) }
    \cup { EncCall("c.addi16sp", <<x1>>) : x1 \in (-528 .. 512) }
    \cup { EncCall("c.srli", <<x1, x2>>) : x1 \in rp, x2 \in (0 .. 32) }
    \cup { EncCall("c.srai", <<x1, x2>>) : x1 \in rp, x2 \in (0 .. 32) }
    \cup { EncCall("c.andi", <<x1, x2>>) : x1 \in rp, x2 \in (-33 .. 32) }
    \cup { EncCall("c.sub", <<x1, x2>>) : x1 \in rp, x2 \in rp }
    \cup { EncCall("c.xor", <<x1, x2>>) : x1 \in rp, x2 \in rp }
    \cup { EncCall("c.or", <<x1, x2>>) : x1 \in rp, x2 \in rp }
    \cup { EncCall("c.and", <<x1, x2>>) : x1 \in rp, x2 \in rp }
    \cup { EncCall("c.j", <<x1>>) : x1 \in (-2050 .. 2048) }
    \cup { EncCall("c.beqz", <<x1, x2>>) : x1 \in rp, x2 \in (-258 .. 256) }
    \cup { EncCall("c.bnez", <<x1, x2>>) : x1 \in rp, x2 \in (-258 .. 256) }
    \cup { EncCall("c.slli", <<x1, x2>>) : x1 \in rf, x2 \in (0 .. 32) }
    \cup { EncCall("c.lwsp", <<x1, x2>>) : x1 \in rf, x2 \in (-1 .. 256) }
    \cup { EncCall("c.jr", <<x1>>) : x1 \in rf }
    \cup { EncCall("c.mv", <<x1, x2>>) : x1 \in rf, x2 \in rf }
    \cup { EncCall("c.ebreak", <<>>) }
    \cup { EncCall("c.jalr", <<x1>>) : x1 \in rf }
    \cup { EncCall("c.add", <<x1, x2>>) : x1 \in rf, x2 \in rf }
    \cup { EncCall("c.swsp", <<x1, x2>>) : x1 \in rf, x2 \in (-1 .. 256) }

\* calls of the shift-immediate encoders of the op tables with a shift amount
\* beyond 31
ShiftCalls ==
    { EncCall(m, <<rd, rs1, sh>>) :
          m \in {k \in DOMAIN I_ALU : I_ALU[k][1] = "make_i_shift_encoder"},
          rd \in {1}, rs1 \in {2}, sh \in {31, 32, 33} }

\* bits [lo + n - 1 : lo] of a word, and the sign extension of a b-bit value
Bits(w, lo, n) == (w \div (2 ^ lo)) % (2 ^ n)

SignExtend(v, b) == IF v >= 2 ^ (b - 1) THEN v - 2 ^ b ELSE v

\* quadrant and funct bits of a 16-bit word: bits 1:0, funct3 (15:13) and,
\* where the format has them, funct2 (11:10), bit 12 and funct2 (6:5)
FunctBits(w) ==
    LET q  == Bits(w, 0, 2)
        f3 == Bits(w, 13, 3)
    IN  CASE q = 1 /\ f3 = 4 /\ Bits(w, 10, 2) = 3 ->
                <<q, f3, 3, Bits(w, 12, 1), Bits(w, 5, 2)>>
          [] q = 1 /\ f3 = 4 -> <<q, f3, Bits(w, 10, 2)>>
          [] q = 2 /\ f3 = 4 -> <<q, f3, Bits(w, 12, 1)>>
          [] OTHER -> <<q, f3>>

\* the immediates read back from their documented positions
JumpImm(w) ==
    SignExtend(Bits(w, 12, 1) * 2048 + Bits(w, 11, 1) * 16 + Bits(w, 9, 2) * 256
               + Bits(w, 8, 1) * 1024 + Bits(w, 7, 1) * 64 + Bits(w, 6, 1) * 128
               + Bits(w, 3, 3) * 2 + Bits(w, 2, 1) * 32, 12)

BranchImm(w) ==
    SignExtend(Bits(w, 12, 1) * 256 + Bits(w, 10, 2) * 8 + Bits(w, 5, 2) * 64
               + Bits(w, 3, 2) * 2 + Bits(w, 2, 1) * 32, 9)

Imm6(w) == SignExtend(Bits(w, 12, 1) * 32 + Bits(w, 2, 5), 6)

LwImm(w) == Bits(w, 5, 1) * 64 + Bits(w, 10, 3) * 8 + Bits(w, 6, 1) * 4

\* a 3-bit register field f stands for register f + 8
RegPrime(w, lo) == Bits(w, lo, 3) + 8

\* decode of a 16-bit word: the mnemonic from the quadrant and funct bits (and,
\* where these are shared, from the register fields), the operands from the
\* fields
CDecode(w) ==
    LET q   == Bits(w, 0, 2)
        f3  == Bits(w, 13, 3)
        r5  == Bits(w, 7, 5)
        s5  == Bits(w, 2, 5)
    IN  CASE q = 0 /\ f3 = 0 ->
               EncCall("c.addi4spn",
                       <<RegPrime(w, 2),
                         Bits(w, 11, 2) * 16 + Bits(w, 7, 4) * 64
                         + Bits(w, 6, 1) * 4 + Bits(w, 5, 1) * 8>>)
          [] q = 0 /\ f3 = 2 -> EncCall("c.lw", <<RegPrime(w, 2), RegPrime(w, 7), LwImm(w)>>)
          [] q = 0 /\ f3 = 6 -> EncCall("c.sw", <<RegPrime(w, 7), RegPrime(w, 2), LwImm(w)>>)
          [] q = 1 /\ f3 = 0 -> EncCall("c.addi", <<r5, Imm6(w)>>)
          [] q = 1 /\ f3 = 1 -> EncCall("c.jal", <<JumpImm(w)>>)
          [] q = 1 /\ f3 = 2 -> EncCall("c.li", <<r5, Imm6(w)>>)
          [] q = 1 /\ f3 = 3 /\ r5 = 2 ->
               EncCall("c.addi16sp",
                       <<SignExtend(Bits(w, 12, 1) * 512 + Bits(w, 6, 1) * 16
                                    + Bits(w, 5, 1) * 64 + Bits(w, 3, 2) * 128
                                    + Bits(w, 2, 1) * 32, 10)>>)
          [] q = 1 /\ f3 = 3 /\ r5 # 2 -> EncCall("c.lui", <<r5, Imm6(w)>>)
          [] q = 1 /\ f3 = 4 /\ Bits(w, 10, 2) = 0 ->
               EncCall("c.srli", <<RegPrime(w, 7), s5>>)
          [] q = 1 /\ f3 = 4 /\ Bits(w, 10, 2) = 1 ->
               EncCall("c.srai", <<RegPrime(w, 7), s5>>)
          [] q = 1 /\ f3 = 4 /\ Bits(w, 10, 2) = 2 ->
               EncCall("c.andi", <<RegPrime(w, 7), Imm6(w)>>)
          [] q = 1 /\ f3 = 4 /\ Bits(w, 10, 2) = 3 ->
               EncCall(<<"c.sub", "c.xor", "c.or", "c.and">>[Bits(w, 5, 2) + 1],
                       <<RegPrime(w, 7), RegPrime(w, 2)>>)
          [] q = 1 /\ f3 = 5 -> EncCall("c.j", <<JumpImm(w)>>)
          [] q = 1 /\ f3 = 6 -> EncCall("c.beqz", <<RegPrime(w, 7), BranchImm(w)>>)
          [] q = 1 /\ f3 = 7 -> EncCall("c.bnez", <<RegPrime(w, 7), BranchImm(w)>>)
          [] q = 2 /\ f3 = 0 -> EncCall("c.slli", <<r5, s5>>)
          [] q = 2 /\ f3 = 2 ->
               EncCall("c.lwsp",
                       <<r5, Bits(w, 12, 1) * 32 + Bits(w, 4, 3) * 4 + Bits(w, 2, 2) * 64>>)
          [] q = 2 /\ f3 = 4 /\ Bits(w, 12, 1) = 0 /\ s5 = 0 -> EncCall("c.jr", <<r5>>)
          [] q = 2 /\ f3 = 4 /\ Bits(w, 12, 1) = 0 /\ s5 # 0 -> EncCall("c.mv", <<r5, s5>>)
          [] q = 2 /\ f3 = 4 /\ Bits(w, 12, 1) = 1 /\ s5 = 0 /\ r5 = 0 ->
               EncCall("c.ebreak", <<>>)
          [] q = 2 /\ f3 = 4 /\ Bits(w, 12, 1) = 1 /\ s5 = 0 /\ r5 # 0 ->
               EncCall("c.jalr", <<r5>>)
          [] q = 2 /\ f3 = 4 /\ Bits(w, 12, 1) = 1 /\ s5 # 0 -> EncCall("c.add", <<r5, s5>>)
          [] q = 2 /\ f3 = 6 ->
               EncCall("c.swsp", <<s5, Bits(w, 9, 4) * 4 + Bits(w, 7, 2) * 64>>)
          [] OTHER -> EncCall("illegal", <<>>)

\* instr_16bit = enc_c_...(operands)
CompressedEncodeCall ==
    /\ test = "cencode"
    /\ dpc = "init"
    /\ cur.m \in CMnemonics
    /\ instruction' = CEncode(cur.m, cur.ops)
    /\ dpc' = "done"
    /\ UNCHANGED <<test, result, fail_reason, clock_vars, dwait, runnable, mon, loop_vars,
                   reg_vars, reservation, flush_vars, rfpc_queues, mw_queues, ram_bytes,
                   iter_vars, hist>>

\* the lambda of make_i_shift_encoder: no check of the shift amount
ShiftEncodeCall ==
    /\ test = "cencode"
    /\ dpc = "init"
    /\ cur.m \in DOMAIN I_ALU
    /\ instruction' = Returned(Encode(cur.m, cur.ops))
    /\ dpc' = "done"
    /\ UNCHANGED <<test, result, fail_reason, clock_vars, dwait, runnable, mon, loop_vars,
                   reg_vars, reservation, flush_vars, rfpc_queues, mw_queues, ram_bytes,
                   iter_vars, hist>>

InitCEncode == PureInit("cencode", CCalls(CRegsPrime, CRegsFull) \cup ShiftCalls)

NextCEncode == CompressedEncodeCall \/ ShiftEncodeCall

SpecCEncode == InitCEncode /\ [][NextCEncode]_vars

\* a compressed encoder has returned a word for the operands in cur
CEncoded ==
    test = "cencode" /\ dpc = "done" /\ cur.m \in CMnemonics /\ instruction.exc = "none"

\* a few accepted calls of every encoder (the funct bits of a mnemonic are the
\* same in all its words)
CRepresentatives ==
    { c \in CCalls({8, 12}, {1, 8}) :
          /\ \A k \in 1 .. Len(c.ops) : c.ops[k] \in {1, 4, 8, 12, 16, -16}
          /\ CEncode(c.m, c.ops).exc = "none" }

\* the funct bits of the words of every mnemonic
FunctBitsOf == { <<c.m, FunctBits(CEncode(c.m, c.ops).word)>> : c \in CRepresentatives }

\* the quadrant and funct bits of the word belong to one mnemonic only
FunctBitsIdentify == \A p \in FunctBitsOf : p[2] = FunctBits(instruction.word) => p[1] = cur.m

\* width of a mask 2^k - 1
RECURSIVE MaskWidth(_)
MaskWidth(mask) == IF mask = 0 THEN 0 ELSE 1 + MaskWidth(mask \div 2)

\* the packed fields occupy disjoint bit ranges
FieldsDisjoint(fields) ==
    \A i, j \in 1 .. Len(fields) :
        i < j => \/ fields[i][2] + MaskWidth(fields[i][3]) <= fields[j][2]
                 \/ fields[j][2] + MaskWidth(fields[j][3]) <= fields[i][2]

\* C16: for every compressed encoder and every legal operand tuple the 16-bit
\* word round-trips: its quadrant and funct bits identify the mnemonic, the
\* packed fields occupy disjoint bit ranges, and reading the fields back from
\* their positions (signed immediates sign-extended, a 3-bit register field f
\* read as register f + 8) returns exactly the operands that were encoded.
C16_AsStated ==
    CEncoded =>
        /\ FunctBitsIdentify
        /\ FieldsDisjoint(instruction.fields)
        /\ CDecode(instruction.word) = cur

\* the pairs of mnemonics that share their quadrant and funct bits and are
\* told apart by a register field
SharedFunct ==
    { {"c.lui", "c.addi16sp"}, {"c.jr", "c.mv"}, {"c.jalr", "c.add", "c.ebreak"},
      {"c.addi", "c.nop"} }

\* C16 as amended: the fields are disjoint and the operands are read back
\* exactly; the mnemonic is identified by the quadrant and funct bits, and by
\* the register fields for the mnemonics that share them; C.NOP is the word of
\* C.ADDI x0, 0.
C16_RoundTrip ==
    CEncoded =>
        /\ \A p \in FunctBitsOf :
              p[2] = FunctBits(instruction.word) =>
                  \/ p[1] = cur.m
                  \/ \E s \in SharedFunct : {p[1], cur.m} \subseteq s
        /\ FieldsDisjoint(instruction.fields)
        /\ \/ CDecode(instruction.word) = cur
           \/ cur = EncCall("c.nop", <<>>) /\ CDecode(instruction.word) = EncCall("c.addi", <<0, 0>>)

\* c.lw x15, 124(x8) has been encoded and is read back
C16_Witness ==
    /\ CEncoded
    /\ cur = EncCall("c.lw", <<15, 8, 124>>)
    /\ CDecode(instruction.word).ops = <<15, 8, 124>>
    /\ Bits(instruction.word, 2, 3) = 7

\* the operands in cur are outside the range of their field: a shift amount
\* above 31, or a register outside x8..x15 for a 3-bit register field
OperandOutOfRange ==
    \/ cur.m \in DOMAIN I_ALU /\ cur.ops[3] \notin 0 .. 31
    \/ /\ cur.m \in {"c.lw", "c.sw", "c.sub", "c.xor", "c.or", "c.and"}
       /\ \E k \in 1 .. 2 : cur.ops[k] \notin 8 .. 15

\* C17: every encoder rejects an out-of-range operand with an EncodingError
\* before producing a word; no encoder silently truncates an operand to its
\* field width.
C17_AsStated ==
    (test = "cencode" /\ dpc = "done" /\ OperandOutOfRange) =>
        instruction.exc = "EncodingError"

\* the weaker reading: some exception is raised, whatever its type
C17_SomeException ==
    (test = "cencode" /\ dpc = "done" /\ OperandOutOfRange) => instruction.exc # "none"

\* ------------------------------------------- MemoryModel as a pure data type
\* number of writes in a sequence
MaxMemWrites == 3

\* addresses: aligned, unaligned, in two words, and one above the address mask
MemAddresses == { W(0, 0), W(0, 1), W(0, 3), W(0, 4), W(0, 6), W(1, 2) }

\* values: 32-bit words and one wider than 32 bits (0x1DEADBEEF)
MemValues == { W(4660, 22136), W(65535, 65535), W(Half + 57005, 48879) }

MemByteValues == { 255, 274 }

MemOp(op, a, v) == [op |-> op, a |-> a, v |-> v]

\* mem_model.write_word(address, value)
MemWriteWord ==
    /\ test = "memory"
    /\ loop_i < MaxMemWrites
    /\ \E a \in MemAddresses, v \in MemValues :
          /\ ram_bytes' = write_word(ram_bytes, a, v)
          /\ cur' = MemOp("write_word", a, v)
    /\ loop_i' = loop_i + 1
    /\ UNCHANGED <<test, result, fail_reason, clock_vars, sched_vars, reset_left,
                   drain_cycles, instruction, reg_vars, reservation, flush_vars,
                   rfpc_queues, mw_queues, instr_params, expected_pc, coverage, hist>>

\* mem_model.write_byte(address, value)
MemWriteByte ==
    /\ test = "memory"
    /\ loop_i < MaxMemWrites
    /\ \E a \in MemAddresses, b \in MemByteValues :
          /\ ram_bytes' = write_byte(ram_bytes, a, b)
          /\ cur' = MemOp("write_byte", a, b)
    /\ loop_i' = loop_i + 1
    /\ UNCHANGED <<test, result, fail_reason, clock_vars, sched_vars, reset_left,
                   drain_cycles, instruction, reg_vars, reservation, flush_vars,
                   rfpc_queues, mw_queues, instr_params, expected_pc, coverage, hist>>

InitMem == PureInit("memory", {MemOp("none", Zero32, Zero32)})

NextMem == MemWriteWord \/ MemWriteByte

SpecMem == InitMem /\ [][NextMem]_vars

\* v & 0xFFFFFFFF
Trunc32(v) == W(v[1] % Half, v[2] % Half)

\* (v >> 8*i) & 0xFF of a 32-bit word
LittleEndianByte(v, i) ==
    LET half == IF i < 2 THEN v[2] ELSE v[1]
    IN  (half \div (256 ^ (i % 2))) % 256

\* the last operation was write_word(a, v)
WordWritten == test = "memory" /\ cur.op = "write_word"

\* C18: after write_word(a, v) a read_word of any address in the same
\* 4-byte-aligned word returns v & 0xFFFFFFFF and read_byte(aligned(a) + i)
\* returns (v >> 8*i) & 0xFF for i in 0..3 (little-endian); every stored byte
\* is in 0..255 after any sequence of writes.
C18_WordRoundTrip ==
    /\ WordWritten =>
          \A i \in 0 .. 3 :
              LET ai == AddMask32(MemWordAlign(cur.a), i)
              IN  /\ read_word(ram_bytes, ai) = Trunc32(cur.v)
                  /\ read_byte(ram_bytes, ai) = LittleEndianByte(Trunc32(cur.v), i)
    /\ test = "memory" => \A k \in DOMAIN ram_bytes : ram_bytes[k] \in 0 .. 255

\* the wide value has been written through an unaligned address, after a byte
\* write of a value above 255, and is read back truncated
C18_Witness ==
    /\ WordWritten
    /\ cur.a = W(0, 6)
    /\ cur.v = W(Half + 57005, 48879)
    /\ read_word(ram_bytes, W(0, 4)) = W(57005, 48879)
    /\ read_byte(ram_bytes, W(0, 4)) = 239
    /\ read_byte(ram_bytes, W(0, 1)) = 18

\* ------------------------------------------------ fp_model.py: exact integers
\* Python integers and Decimal coefficients are unbounded.  They are kept as
\* sequences of base-4096 limbs, least significant limb first, without leading
\* zero limbs; <<>> is zero.
Limb == 64 * 64

LimbAt(a, i) == IF i \in 1 .. Len(a) THEN a[i] ELSE 0

MaxOf(x, y) == IF x >= y THEN x ELSE y

MinOf(x, y) == IF x <= y THEN x ELSE y

\* propagate carries (and borrows: \div rounds down) from limb i on
RECURSIVE CarryFrom(_, _, _)
CarryFrom(s, i, c) ==
    IF i > Len(s)
    THEN IF c = 0 THEN <<>> ELSE <<c % Limb>> \o CarryFrom(s, i, c \div Limb)
    ELSE <<(s[i] + c) % Limb>> \o CarryFrom(s, i + 1, (s[i] + c) \div Limb)

\* drop the leading zero limbs
Strip(s) ==
    LET nz == { i \in 1 .. Len(s) : s[i] # 0 }
    IN  IF nz = {} THEN <<>>
        ELSE SubSeq(s, 1, CHOOSE i \in nz : \A j \in nz : j <= i)

BigNorm(s) == Strip(CarryFrom(s, 1, 0))

\* a machine-sized nonnegative integer as limbs, and back
BigOfInt(n) == BigNorm(<<n>>)

BigToInt(a) == LimbAt(a, 1) + Limb * LimbAt(a, 2) + Limb * Limb * LimbAt(a, 3)

BigAdd(a, b) ==
    BigNorm([i \in 1 .. MaxOf(Len(a), Len(b)) |-> LimbAt(a, i) + LimbAt(b, i)])

\* a - b for a >= b
BigSub(a, b) ==
    BigNorm([i \in 1 .. MaxOf(Len(a), Len(b)) |-> LimbAt(a, i) - LimbAt(b, i)])

\* sum of a[i] * b[k + 1 - i] for i in 1 .. n
RECURSIVE ConvTerm(_, _, _, _)
ConvTerm(a, b, k, n) ==
    IF n = 0 THEN 0
    ELSE LimbAt(a, n) * LimbAt(b, k + 1 - n) + ConvTerm(a, b, k, n - 1)

\* a * b (the operands are 24-bit significands: no column sum overflows)
BigMul(a, b) ==
    BigNorm([k \in 1 .. (Len(a) + Len(b)) |-> ConvTerm(a, b, k, Len(a))])

\* a < b
BigLess(a, b) ==
    IF Len(a) # Len(b) THEN Len(a) < Len(b)
    ELSE LET d == { i \in 1 .. Len(a) : a[i] # b[i] }
         IN  IF d = {} THEN FALSE
             ELSE LET top == CHOOSE i \in d : \A j \in d : j <= i
                  IN  a[top] < b[top]

BigLeq(a, b) == a = b \/ BigLess(a, b)

\* a << k
BigShl(a, k) ==
    LET q == k \div 12
        r == k % 12
    IN  IF a = <<>> THEN <<>>
        ELSE BigNorm([i \in 1 .. (Len(a) + q) |-> LimbAt(a, i - q) * (2 ^ r)])

\* a >> k
BigShr(a, k) ==
    LET q == k \div 12
        r == k % 12
    IN  Strip([i \in 1 .. MaxOf(Len(a) - q, 0) |->
                  (LimbAt(a, i + q) \div (2 ^ r))
                    + (LimbAt(a, i + q + 1) % (2 ^ r)) * (2 ^ (12 - r))])

\* a.bit_length()
BigBitLen(a) ==
    IF a = <<>> THEN 0
    ELSE 12 * (Len(a) - 1)
           + (CHOOSE n \in 1 .. 12 : 2 ^ (n - 1) <= a[Len(a)] /\ a[Len(a)] < 2 ^ n)

\* (a >> i) & 1
BigBit(a, i) == (LimbAt(a, (i \div 12) + 1) \div (2 ^ (i % 12))) % 2

\* (a & ((1 << k) - 1)) != 0
BigLowNonzero(a, k) == a # BigShl(BigShr(a, k), k)

\* ---------------------------------------------------- fp_model.py: Decimal
\* A Decimal that holds a binary fraction: (-1)^neg * m * 2^e.  The context
\* precision (ctx.prec = 150 significant digits) is checked by FitsPrecision.
Dec(neg, m, e) == [neg |-> neg, m |-> m, e |-> e]

DecIsZero(d) == d.m = <<>>

\* x * y
DecMul(x, y) == Dec(x.neg # y.neg, BigMul(x.m, y.m), x.e + y.e)

\* x + y, the sum of opposite values being +0 (ROUND_HALF_EVEN)
DecAdd(x, y) ==
    LET e  == MinOf(x.e, y.e)
        mx == BigShl(x.m, x.e - e)
        my == BigShl(y.m, y.e - e)
    IN  IF x.neg = y.neg THEN Dec(x.neg, BigAdd(mx, my), e)
        ELSE IF mx = my THEN Dec(FALSE, <<>>, e)
        ELSE IF BigLess(mx, my) THEN Dec(y.neg, BigSub(my, mx), e)
        ELSE Dec(x.neg, BigSub(mx, my), e)

\* abs(x) < abs(y), abs(x) = abs(y)
DecAbsLess(x, y) ==
    LET e == MinOf(x.e, y.e)
    IN  BigLess(BigShl(x.m, x.e - e), BigShl(y.m, y.e - e))

DecAbsEq(x, y) ==
    LET e == MinOf(x.e, y.e)
    IN  BigShl(x.m, x.e - e) = BigShl(y.m, y.e - e)

\* int(abs(x) * 2^k) and whether a fraction was dropped
DecScaledInt(x, k) ==
    IF x.e + k >= 0 THEN BigShl(x.m, x.e + k) ELSE BigShr(x.m, -(x.e + k))

DecScaledRemainder(x, k) == x.e + k < 0 /\ BigLowNonzero(x.m, -(x.e + k))

\* ---------------------------------------------- fp_model.py: bit patterns
FP_POS_ZERO == W(0, 0)

FP_NEG_ZERO == W(32768, 0)

FP_POS_INF == W(32640, 0)

FP_NEG_INF == W(65408, 0)

FP_CANONICAL_NAN == W(32704, 0)

\* (bits >> 31) & 1, (bits >> 23) & 0xFF, bits & 0x7FFFFF
FpSign(bits) == bits[1] \div 32768

FpExp(bits) == (bits[1] \div 128) % 256

FpMant(bits) == (bits[1] % 128) * Half + bits[2]

\* (sign << 31) | (exp << 23) | mant
FpPack(sign, exp, mant) == W(sign * 32768 + exp * 128 + mant \div Half, mant % Half)

is_nan(bits) == FpExp(bits) = 255 /\ FpMant(bits) # 0

is_inf(bits) == FpExp(bits) = 255 /\ FpMant(bits) = 0

is_zero(bits) == FpExp(bits) = 0 /\ FpMant(bits) = 0

is_negative(bits) == FpSign(bits) = 1

canonicalize_nan_identity(bits) == bits

canonicalize_nan(bits) == IF is_nan(bits) THEN FP_CANONICAL_NAN ELSE bits

_negate_float32(bits) == FpPack(1 - FpSign(bits), FpExp(bits), FpMant(bits))

\* ---------------------------------------------- fp_model.py: _fma_float32
\* float32_to_decimal: the exact value of a finite bit pattern
float32_to_decimal(bits) ==
    IF FpExp(bits) = 0
    THEN IF FpMant(bits) = 0 THEN Dec(FpSign(bits) = 1, <<>>, 0)
         ELSE Dec(FpSign(bits) = 1, BigOfInt(FpMant(bits)), -149)
    ELSE Dec(FpSign(bits) = 1, BigOfInt(8388608 + FpMant(bits)), FpExp(bits) - 150)

\* round_up = guard & (round_bit | sticky | lsb), with the round bit left out
RoundUpNoRoundBit(scaled_int, remainder) ==
    /\ BigBit(scaled_int, 26) = 1
    /\ \/ BigLowNonzero(scaled_int, 25)
       \/ remainder
       \/ BigBit(scaled_int, 27) = 1

\* round_up = guard & (round_bit | sticky | lsb)
RoundUp(scaled_int, remainder) ==
    /\ BigBit(scaled_int, 26) = 1
    /\ \/ BigBit(scaled_int, 25) = 1
       \/ BigLowNonzero(scaled_int, 25)
       \/ remainder
       \/ BigBit(scaled_int, 27) = 1

\* decimal_to_float32: one rounding of a Decimal to binary32
decimal_to_float32(d) ==
    IF DecIsZero(d) THEN (IF d.neg THEN FP_NEG_ZERO ELSE FP_POS_ZERO)
    ELSE
    LET sign         == IF d.neg THEN 1 ELSE 0
        exp_estimate == BigBitLen(d.m) - 1 + d.e
        biased_exp   == exp_estimate + 127
        inf          == IF d.neg THEN FP_NEG_INF ELSE FP_POS_INF
    IN  IF biased_exp >= 255 THEN inf
        ELSE IF biased_exp >= 1
        THEN LET scaled_int  == DecScaledInt(d, 50 - exp_estimate)
                 remainder   == DecScaledRemainder(d, 50 - exp_estimate)
                 mantissa_24 == BigToInt(BigShr(scaled_int, 27))
                                  + (IF RoundUp(scaled_int, remainder) THEN 1 ELSE 0)
             IN  IF mantissa_24 >= 16777216
                 THEN IF biased_exp + 1 >= 255 THEN inf
                      ELSE FpPack(sign, biased_exp + 1, (mantissa_24 \div 2) % 8388608)
                 ELSE FpPack(sign, biased_exp, mantissa_24 % 8388608)
        ELSE IF 1 - biased_exp >= 25
        THEN (IF d.neg THEN FP_NEG_ZERO ELSE FP_POS_ZERO)
        ELSE LET scale_exp  == 49 + biased_exp - exp_estimate
                 scaled_int == DecScaledInt(d, scale_exp)
                 remainder  == DecScaledRemainder(d, scale_exp)
                 mantissa   == BigToInt(BigShr(scaled_int, 27))
                                 + (IF RoundUp(scaled_int, remainder) THEN 1 ELSE 0)
             IN  IF mantissa >= 8388608 THEN FpPack(sign, 1, 0)
                 ELSE FpPack(sign, 0, mantissa % 8388608)

\* _fma_float32(a_bits, b_bits, c_bits)
_fma_float32(a, b, c) ==
    LET prod_sign == (FpSign(a) + FpSign(b)) % 2
    IN  IF (is_inf(a) /\ is_zero(b)) \/ (is_zero(a) /\ is_inf(b)) THEN FP_CANONICAL_NAN
        ELSE IF is_inf(a) \/ is_inf(b)
        THEN IF is_inf(c) /\ prod_sign # FpSign(c) THEN FP_CANONICAL_NAN
             ELSE IF prod_sign = 1 THEN FP_NEG_INF ELSE FP_POS_INF
        ELSE IF is_inf(c) THEN (IF FpSign(c) = 1 THEN FP_NEG_INF ELSE FP_POS_INF)
        ELSE decimal_to_float32(
                 DecAdd(DecMul(float32_to_decimal(a), float32_to_decimal(b)),
                        float32_to_decimal(c)))

\* fmadd_s(rs1_bits, rs2_bits, rs3_bits)
fmadd_s(rs1, rs2, rs3) ==
    IF is_nan(rs1) \/ is_nan(rs2) \/ is_nan(rs3) THEN FP_CANONICAL_NAN
    ELSE IF (is_zero(rs1) /\ is_inf(rs2)) \/ (is_inf(rs1) /\ is_zero(rs2))
    THEN FP_CANONICAL_NAN
    ELSE IF /\ is_inf(rs1) \/ is_inf(rs2)
            /\ is_inf(rs3)
            /\ FpSign(rs3) # (FpSign(rs1) + FpSign(rs2)) % 2
    THEN FP_CANONICAL_NAN
    ELSE canonicalize_nan(_fma_float32(rs1, rs2, rs3))

\* fmsub_s: FMA(a, b, -c)
fmsub_s(rs1, rs2, rs3) ==
    IF is_nan(rs1) \/ is_nan(rs2) \/ is_nan(rs3) THEN FP_CANONICAL_NAN
    ELSE IF (is_zero(rs1) /\ is_inf(rs2)) \/ (is_inf(rs1) /\ is_zero(rs2))
    THEN FP_CANONICAL_NAN
    ELSE IF /\ is_inf(rs1) \/ is_inf(rs2)
            /\ is_inf(rs3)
            /\ 1 - FpSign(rs3) # (FpSign(rs1) + FpSign(rs2)) % 2
    THEN FP_CANONICAL_NAN
    ELSE canonicalize_nan(_fma_float32(rs1, rs2, _negate_float32(rs3)))

\* ------------------------------------- fp_model.py: host float arithmetic
\* A Python float that came from binary32 operands: a NaN, an infinity or an
\* exact value.  Sums and products of binary32 values are kept exact: rounding
\* them to 53 bits first does not change their rounding to binary32.
HostNaN == [kind |-> "nan", neg |-> FALSE, d |-> Dec(FALSE, <<>>, 0)]

HostInf(neg) == [kind |-> "inf", neg |-> neg, d |-> Dec(neg, <<>>, 0)]

HostFinite(d) == [kind |-> "finite", neg |-> d.neg, d |-> d]

\* struct.unpack(">f", struct.pack(">I", bits))
bits_to_float(bits) ==
    IF FpExp(bits) = 255
    THEN IF FpMant(bits) # 0 THEN HostNaN ELSE HostInf(FpSign(bits) = 1)
    ELSE HostFinite(float32_to_decimal(bits))

\* struct.pack(">f", f) rounds to nearest even; its OverflowError saturates
float_to_bits(f) ==
    IF f.kind = "nan" THEN FP_CANONICAL_NAN
    ELSE IF f.kind = "inf" THEN (IF f.neg THEN FP_NEG_INF ELSE FP_POS_INF)
    ELSE decimal_to_float32(f.d)

\* f1 + f2
HostAdd(f, g) ==
    IF f.kind = "nan" \/ g.kind = "nan" THEN HostNaN
    ELSE IF f.kind = "inf"
    THEN IF g.kind = "inf" /\ g.neg # f.neg THEN HostNaN ELSE f
    ELSE IF g.kind = "inf" THEN g
    ELSE HostFinite(DecAdd(f.d, g.d))

\* -f
HostNeg(f) == [f EXCEPT !.neg = ~f.neg, !.d = Dec(~f.d.neg, f.d.m, f.d.e)]

\* f1 * f2
HostMul(f, g) ==
    IF f.kind = "nan" \/ g.kind = "nan" THEN HostNaN
    ELSE IF f.kind = "inf" \/ g.kind = "inf"
    THEN IF (f.kind = "finite" /\ DecIsZero(f.d)) \/ (g.kind = "finite" /\ DecIsZero(g.d))
         THEN HostNaN
         ELSE HostInf(f.neg # g.neg)
    ELSE HostFinite(DecMul(f.d, g.d))

\* f1 <= f2
HostLeq(f, g) ==
    IF f.kind = "nan" \/ g.kind = "nan" THEN FALSE
    ELSE IF f.kind = "inf" THEN f.neg \/ (g.kind = "inf" /\ ~g.neg)
    ELSE IF g.kind = "inf" THEN ~g.neg
    ELSE LET diff == DecAdd(f.d, Dec(~g.d.neg, g.d.m, g.d.e))
         IN  DecIsZero(diff) \/ diff.neg

fadd_s(rs1, rs2) ==
    IF is_nan(rs1) \/ is_nan(rs2) THEN FP_CANONICAL_NAN
    ELSE canonicalize_nan(float_to_bits(HostAdd(bits_to_float(rs1), bits_to_float(rs2))))

fsub_s(rs1, rs2) ==
    IF is_nan(rs1) \/ is_nan(rs2) THEN FP_CANONICAL_NAN
    ELSE canonicalize_nan(
             float_to_bits(HostAdd(bits_to_float(rs1), HostNeg(bits_to_float(rs2)))))

fmul_s(rs1, rs2) ==
    IF is_nan(rs1) \/ is_nan(rs2) THEN FP_CANONICAL_NAN
    ELSE IF (is_zero(rs1) /\ is_inf(rs2)) \/ (is_inf(rs1) /\ is_zero(rs2))
    THEN FP_CANONICAL_NAN
    ELSE canonicalize_nan(float_to_bits(HostMul(bits_to_float(rs1), bits_to_float(rs2))))

\* ------------------------------------ fp_model.py: sign injection, min/max
\* (rs1_bits & ~FP_SIGN_MASK) | (rs2_bits & FP_SIGN_MASK)
fsgnj_s(rs1, rs2) == FpPack(FpSign(rs2), FpExp(rs1), FpMant(rs1))

fsgnjn_s(rs1, rs2) == FpPack(1 - FpSign(rs2), FpExp(rs1), FpMant(rs1))

fsgnjx_s(rs1, rs2) == FpPack((FpSign(rs1) + FpSign(rs2)) % 2, FpExp(rs1), FpMant(rs1))

\* fmin_s without its first branch (two NaN operands)
fmin_s_one_nan_rule(rs1, rs2) ==
    IF is_nan(rs1) THEN rs2
    ELSE IF is_nan(rs2) THEN rs1
    ELSE IF is_zero(rs1) /\ is_zero(rs2) THEN (IF is_negative(rs1) THEN rs1 ELSE rs2)
    ELSE IF HostLeq(bits_to_float(rs1), bits_to_float(rs2)) THEN rs1
    ELSE rs2

fmin_s(rs1, rs2) ==
    IF is_nan(rs1) /\ is_nan(rs2) THEN FP_CANONICAL_NAN
    ELSE IF is_nan(rs1) THEN rs2
    ELSE IF is_nan(rs2) THEN rs1
    ELSE IF is_zero(rs1) /\ is_zero(rs2) THEN (IF is_negative(rs1) THEN rs1 ELSE rs2)
    ELSE IF HostLeq(bits_to_float(rs1), bits_to_float(rs2)) THEN rs1
    ELSE rs2

fmax_s(rs1, rs2) ==
    IF is_nan(rs1) /\ is_nan(rs2) THEN FP_CANONICAL_NAN
    ELSE IF is_nan(rs1) THEN rs2
    ELSE IF is_nan(rs2) THEN rs1
    ELSE IF is_zero(rs1) /\ is_zero(rs2) THEN (IF ~is_negative(rs1) THEN rs1 ELSE rs2)
    ELSE IF HostLeq(bits_to_float(rs2), bits_to_float(rs1)) THEN rs1
    ELSE rs2

\* fmv_w_x: rs1_int & MASK32
fmv_w_x(rs1) == W(rs1[1] % Half, rs1[2] % Half)

\* ----------------------------------------------- fused multiply-add calls
\* finite binary32 operands: zeros, the ends of the subnormal and normal
\* ranges, 1.0 and its neighbours, halves of an ulp, and the top of the range
FmaValues ==
    { W(0, 0), W(32768, 0),          \* +0, -0
      W(0, 1), W(0, 3),              \* 2^-149, 3 * 2^-149
      W(127, 65535), W(128, 0),      \* largest subnormal, smallest normal
      W(16128, 0),                   \* 0.5
      W(16256, 0), W(16256, 1),      \* 1.0, 1 + 2^-23
      W(49024, 2),                   \* -(1 + 2^-22)
      W(16255, 65535),               \* 1 - 2^-24
      W(13184, 0), W(13248, 0),      \* 2^-24, 1.5 * 2^-24
      W(16384, 0),                   \* 2.0
      W(29440, 0),                   \* 2^103
      W(32639, 65535) }              \* largest finite

FmaCall(a, b, c) == [op |-> "fmadd_s", a |-> a, b |-> b, c |-> c]

\* index of the lowest set bit of a nonzero integer
BigTrailingZeros(a) ==
    LET i == CHOOSE k \in 1 .. Len(a) : a[k] # 0 /\ \A j \in 1 .. (k - 1) : a[j] = 0
    IN  12 * (i - 1) + (CHOOSE n \in 0 .. 11 : a[i] % (2 ^ (n + 1)) = 2 ^ n)

\* an upper bound of the number of significant decimal digits of d
\* (log10(2) < 0.30103, log10(5) < 0.69898)
DecDigits(d) ==
    IF DecIsZero(d) THEN 1
    ELSE LET tz   == BigTrailingZeros(d.m)
             bits == BigBitLen(d.m) - tz
             e    == d.e + tz
         IN  IF e >= 0 THEN ((bits + e) * 30103) \div 100000 + 1
             ELSE (bits * 30103 + (-e) * 69898) \div 100000 + 1

\* a_dec * b_dec and a_dec * b_dec + c_dec
FmaProduct(a, b) == DecMul(float32_to_decimal(a), float32_to_decimal(b))

FmaExact(a, b, c) == DecAdd(FmaProduct(a, b), float32_to_decimal(c))

\* ctx.prec = 150: neither the product nor the sum is rounded by Decimal
FitsPrecision(a, b, c) ==
    DecDigits(FmaProduct(a, b)) <= 150 /\ DecDigits(FmaExact(a, b, c)) <= 150

FmaCalls(vals) ==
    { FmaCall(a, b, c) : <<a, b, c>> \in { t \in vals \X vals \X vals :
                                              FitsPrecision(t[1], t[2], t[3]) } }

\* result = fmadd_s(a, b, c)
FmaddCall ==
    /\ test = "fma"
    /\ dpc = "init"
    /\ instruction' = fmadd_s(cur.a, cur.b, cur.c)
    /\ dpc' = "done"
    /\ UNCHANGED <<test, result, fail_reason, clock_vars, dwait, runnable, mon, loop_vars,
                   reg_vars, reservation, flush_vars, rfpc_queues, mw_queues, ram_bytes,
                   iter_vars, hist>>

InitFma == PureInit("fma", FmaCalls(FmaValues))

NextFma == FmaddCall

SpecFma == InitFma /\ [][NextFma]_vars

\* the value of a finite bit pattern without its sign
FpMagnitude(r) == Dec(FALSE, float32_to_decimal(r).m, float32_to_decimal(r).e)

\* the exponent of the last place of r
UlpExponent(r) == IF FpExp(r) = 0 THEN -149 ELSE FpExp(r) - 150

\* the distance from the magnitude of r to the next binary32 magnitude above
\* it and to the next one below it
GapAbove(r) == Dec(FALSE, <<1>>, UlpExponent(r))

GapBelow(r) ==
    IF FpMant(r) = 0 /\ FpExp(r) > 1
    THEN Dec(FALSE, <<1>>, UlpExponent(r) - 1)
    ELSE Dec(FALSE, <<1>>, UlpExponent(r))

\* 2^128 - 2^103: the least magnitude that rounds to infinity
OverflowThreshold == Dec(FALSE, BigOfInt(33554431), 103)

\* r is the binary32 nearest to the real x, the one with an even significand
\* when x is halfway between two of them, an infinity from 2^128 - 2^103 on
NearestEven(x, r) ==
    IF is_nan(r) THEN FALSE
    ELSE IF is_inf(r) THEN ~DecAbsLess(x, OverflowThreshold)
    ELSE LET diff  == DecAdd(Dec(FALSE, x.m, x.e), Dec(TRUE, FpMagnitude(r).m, FpMagnitude(r).e))
             twice == Dec(FALSE, diff.m, diff.e + 1)
             gap   == IF diff.neg THEN GapBelow(r) ELSE GapAbove(r)
         IN  /\ DecAbsLess(x, OverflowThreshold)
             /\ \/ DecAbsLess(twice, gap)
                \/ DecAbsEq(twice, gap) /\ FpMant(r) % 2 = 0

\* the sign of the rounded sum: that of x; of an exact zero, negative only
\* when the product and the addend are both negative
SignOfSum(a, b, c, x) ==
    IF DecIsZero(x)
    THEN (IF (FpSign(a) + FpSign(b)) % 2 = 1 /\ FpSign(c) = 1 THEN 1 ELSE 0)
    ELSE (IF x.neg THEN 1 ELSE 0)

\* round(round(a * b) + c): two IEEE operations, two roundings
TwoRoundings(a, b, c) == fadd_s(fmul_s(a, b), c)

\* adjacent-ulp triples: (1 + 2^-23)^2 - (1 + 2^-22),
\* (1 + 2^-23) * (1 - 2^-24) + 2^-24, and 1 * 1 + 1
AdjacentUlpTriples ==
    { FmaCall(W(16256, 1), W(16256, 1), W(49024, 2)),
      FmaCall(W(16256, 1), W(16255, 65535), W(13184, 0)),
      FmaCall(W(16256, 0), W(16256, 0), W(16256, 0)) }

FmaDone == test = "fma" /\ dpc = "done"

FpValues ==
    { W(32704, 0), W(65472, 0), W(32640, 1), W(32704, 1),
      W(32640, 0), W(65408, 0), W(0, 0), W(32768, 0),
      W(16256, 0), W(49024, 0), W(32639, 65535) }

FpBinaryOps ==
    { "fadd_s", "fsub_s", "fmul_s", "fsgnj_s", "fsgnjn_s", "fsgnjx_s", "fmin_s", "fmax_s" }

FpTernaryOps == { "fmadd_s", "fmsub_s" }

FpUnaryOps == { "fmv_w_x" }

FpSignInjection == { "fsgnj_s", "fsgnjn_s", "fsgnjx_s" }

FpCall(op, a, b, c) == [op |-> op, a |-> a, b |-> b, c |-> c]

FpCalls(vals) ==
    { FpCall(op, a, Zero32, Zero32) : op \in FpUnaryOps, a \in vals }
      \cup { FpCall(op, a, b, Zero32) : op \in FpBinaryOps, a \in vals, b \in vals }
      \cup { FpCall(op, a, b, c) : op \in FpTernaryOps, a \in vals, b \in vals, c \in vals }

\* FP_OPS[op](rs1, rs2[, rs3])
FpApply(c) ==
    CASE c.op = "fadd_s"   -> fadd_s(c.a, c.b)
      [] c.op = "fsub_s"   -> fsub_s(c.a, c.b)
      [] c.op = "fmul_s"   -> fmul_s(c.a, c.b)
      [] c.op = "fmadd_s"  -> fmadd_s(c.a, c.b, c.c)
      [] c.op = "fmsub_s"  -> fmsub_s(c.a, c.b, c.c)
      [] c.op = "fsgnj_s"  -> fsgnj_s(c.a, c.b)
      [] c.op = "fsgnjn_s" -> fsgnjn_s(c.a, c.b)
      [] c.op = "fsgnjx_s" -> fsgnjx_s(c.a, c.b)
      [] c.op = "fmin_s"   -> fmin_s(c.a, c.b)
      [] c.op = "fmax_s"   -> fmax_s(c.a, c.b)
      [] c.op = "fmv_w_x"  -> fmv_w_x(c.a)

FpOpCall ==
    /\ test = "fp"
    /\ dpc = "init"
    /\ instruction' = FpApply(cur)
    /\ dpc' = "done"
    /\ UNCHANGED <<test, result, fail_reason, clock_vars, dwait, runnable, mon, loop_vars,
                   reg_vars, reservation, flush_vars, rfpc_queues, mw_queues, ram_bytes,
                   iter_vars, hist>>

InitFp == PureInit("fp", FpCalls(FpValues))

NextFp == FpOpCall

SpecFp == InitFp /\ [][NextFp]_vars

FpDone == test = "fp" /\ dpc = "done"

\* exponent all ones and a nonzero fraction
NaNPattern(bits) == FpExp(bits) = 255 /\ FpMant(bits) # 0

CompressedWrite == test = "compressed" /\ dpc = "c_drive" /\ dpc' = "c_step"

\* C21: the compressed driver writes a packed word that carries a target
\* instruction only while bit 1 of o_pc, as it last read it, is 0; while that
\* bit is 1 it writes a packed C.NOP, waits for the next rising edge and reads
\* o_pc again.
C21_TargetOnlyWhenAligned ==
    /\ [][(CompressedWrite /\ cur.phase = "target") =>
             (hist.o_pc_bit1 = 0 /\ instruction' = cur.op /\ instruction' # "c.nop")]_vars
    /\ [][(CompressedWrite /\ cur.phase = "align") =>
             /\ hist.o_pc_bit1 = 1
             /\ instruction' = "c.nop"
             /\ cur'.phase = "align"
             /\ dwait' = "rise"]_vars

\* c.sub has been presented after at least one C.NOP cycle spent on alignment
C21_Witness ==
    /\ test = "compressed"
    /\ instruction = "c.sub"
    /\ hist.align_wait
    /\ dwait = "rise"

\* the instruction driven in this step and its place among the issued ones
DrivenHasExpectations ==
    /\ hist'.rf_appended >= hist'.issued
    /\ hist'.pc_appended >= hist'.issued
    /\ hist'.mw_appended >= hist'.mw_due

\* a rising clock edge: the DUT samples the instruction port
RisingEdgeStep == clk = 0 /\ clk' = 1

\* a monitor takes a sample of the DUT's outputs
MonitorSampleStep == \E m \in Monitors : mon[m] = "rise" /\ mon'[m] # "rise"

WriteDetected == MemSampleStep /\ hist'.mw_seen = hist.mw_seen + 1

\* C23: each time the memory monitor detects a DUT write it updates the
\* software memory model with the written data: after the step the word of
\* ram_bytes at the written address is the data the DUT wrote.
C23_AsStated ==
    [][ WriteDetected =>
           read_word(ram_bytes', MemWordAlign(hist'.mem_wr.addr)) = hist'.mem_wr.data ]_vars

\* C24: the branch outcome recorded in the coverage counters for a branch is
\* the taken/not-taken decision of that same instruction on its own operands.
C24_AsStated ==
    [][ (GenerateStep /\ cur'.op = "beq") =>
           hist'.br_recorded =
               {branch_taken_decision(cur'.op, register_file_previous[cur'.rs1],
                                      register_file_previous[cur'.rs2])} ]_vars

max_attempts == 2

\* x % m for a 32-bit x and 0 < m < 2^15
Mod32(w, m) == (((w[1] % m) * (Half % m)) + w[2]) % m

\* effective_address = (base_value + immediate_value) & 0xFFFFFFFF
EffectiveAddress(base, imm) == AddMask32(base, imm)

\* the two tests of one attempt: alignment, then the memory-size test on
\* constrained_address = effective_address % memory_size_constraint
AttemptAccepted(c, imm) ==
    LET ea == EffectiveAddress(c.base, imm)
    IN  /\ Mod32(ea, c.align) = 0
        /\ \A m \in c.mem : ~(Mod32(ea, m) >= m)

\* after the loop: the offset that aligns the base, else immediate_min
FallbackImmediate(c) ==
    LET misalignment  == Mod32(c.base, c.align)
        offset_needed == (c.align - misalignment) % c.align
    IN  IF c.imin <= offset_needed /\ offset_needed <= c.imax
        THEN offset_needed ELSE c.imin

ImmCall(base, align, imin, imax, mem) ==
    [op |-> "generate_aligned_immediate", base |-> base, align |-> align,
     imin |-> imin, imax |-> imax, mem |-> mem]

\* calls: memory_size_constraint is {} for None, immediate ranges are the
\* 12-bit default and two short ones
ImmCalls(bases) ==
    { ImmCall(b, a, r[1], r[2], m) :
        b \in bases, a \in {2, 4}, r \in {<<-2048, 2047>>, <<-8, 7>>, <<1, 1>>},
        m \in {{}, {4096}, {8192}} }

ImmBases == { W(0, 0), W(0, 2), W(0, 4097), W(0, 8192), W(1, 0), W(65535, 65535) }

\* one pass of the for loop: random.randint, the tests, return or continue
ImmediateAttempt ==
    /\ test = "immediate"
    /\ dpc = "init"
    /\ loop_i < max_attempts
    /\ \E imm \in cur.imin .. cur.imax :
          IF AttemptAccepted(cur, imm)
          THEN /\ instruction' = imm
               /\ dpc' = "done"
               /\ loop_i' = loop_i
          ELSE /\ loop_i' = loop_i + 1
               /\ UNCHANGED <<instruction, dpc>>
    /\ UNCHANGED <<test, result, fail_reason, clock_vars, dwait, runnable, mon,
                   reset_left, drain_cycles, reg_vars, reservation, flush_vars,
                   rfpc_queues, mw_queues, ram_bytes, iter_vars, hist>>

\* the loop is exhausted: the fallback value is returned
ImmediateFallback ==
    /\ test = "immediate"
    /\ dpc = "init"
    /\ loop_i = max_attempts
    /\ instruction' = FallbackImmediate(cur)
    /\ dpc' = "fallback"
    /\ UNCHANGED <<test, result, fail_reason, clock_vars, dwait, runnable, mon, loop_vars,
                   reg_vars, reservation, flush_vars, rfpc_queues, mw_queues, ram_bytes,
                   iter_vars, hist>>

InitImm == PureInit("immediate", ImmCalls(ImmBases))

NextImm == ImmediateAttempt \/ ImmediateFallback

SpecImm == InitImm /\ [][NextImm]_vars

\* the function has returned the immediate held in instruction
ImmReturned == test = "immediate" /\ dpc \in {"done", "fallback"}

\* the address lies in [0, size)
InMemory(ea, size) == ea[1] = 0 /\ ea[2] < size

\* C26: with memory_size_constraint given, the immediate returned puts the
\* effective address (base_value + immediate) & 0xFFFFFFFF inside
\* [0, memory_size_constraint), for every base and every outcome of the draws.
C26_AsStated ==
    ImmReturned =>
        \A m \in cur.mem : InMemory(EffectiveAddress(cur.base, instruction), m)

\* the driver is suspended in an await
DriverSuspended == dwait \in {"rise", "fall"}

\* C27: wherever the driver is suspended, and so whenever the memory monitor
\* runs, the memory-write address queue and data queue have the same length;
\* the monitor never removes an entry from an empty data queue.
C27_QueuesPaired ==
    /\ (DriverSuspended \/ MonitorTurn("mem")) =>
           Len(memory_write_address_expected_queue) = Len(memory_write_data_expected_queue)
    /\ fail_reason # "mem_index_error"

\* the monitor has compared one write while the driver, suspended, has a later
\* successful SC.W write waiting in both queues
C27_Witness ==
    /\ DriverSuspended
    /\ hist.mem_last = "mem_compare"
    /\ Len(hist.mw_cmp) >= 1
    /\ hist.sc_success
    /\ Len(memory_write_address_expected_queue) >= 1
    /\ Len(memory_write_data_expected_queue) >= 1
    /\ result = "running"

\* the driver is at the start of an iteration, or between its start and the
\* step that reads the operands and models the instruction
BeforeOperandsRead ==
    /\ test \in {"random", "directed", "executor"}
    /\ dpc \in {"warmup", "loop", "generate", "model", "next", "issue"}

\* C28: at the start of every driver iteration, before the operands are read,
\* register_file_previous equals register_file_current; the step that writes
\* an instruction's result to the current view leaves the previous view
\* alone, and the previous view changes only by the copy at the end of the
\* iteration.
C28_PreviousIsCurrentAtStart ==
    /\ [](BeforeOperandsRead => register_file_previous = register_file_current)
    /\ [][ register_file_current' # register_file_current =>
              register_file_previous' = register_file_previous ]_vars
    /\ [][ register_file_previous' # register_file_previous =>
              /\ register_file_previous' = register_file_current
              /\ dpc \in {"advance", "warmup_adv", "post_reset"} ]_vars

\* the random regression has written x1 in the current view and waits for the
\* rising edge: the previous view still holds the operand value
C28_Witness ==
    /\ test = "random"
    /\ dpc = "advance"
    /\ cur.op = "addi"
    /\ register_file_current[1] # register_file_previous[1]
    /\ register_file_current[1] = register_file_previous[2]

\* the LR.W instructions of the directed test, in program order
DirectedLoads == SelectSeq(DirectedProgram, LAMBDA ins : ins.op = "lr.w")

\* the directed test is about to model an LR.W
DirectedLrIssue == test = "directed" /\ dpc = "issue" /\ cur.op = "lr.w"

\* C29: the writeback value the directed test supplies for each LR.W is the
\* word the memory model holds at the reserved address at that point, as
\* execute_lr would read it: 0x12345678, 0xDEADBEEF, 0x87654321, 0xDEADBEEF.
C29_LrValueIsModelWord ==
    /\ DirectedLrIssue =>
           cur.exp = read_word(ram_bytes, AtomicAddress(register_file_previous, cur.rs1))
    /\ [k \in 1 .. Len(DirectedLoads) |-> DirectedLoads[k].exp]
           = << W(4660, 22136), W(57005, 48879), W(34661, 17185), W(57005, 48879) >>

\* the fourth LR.W is about to be modelled: both words were overwritten by
\* successful SC.W instructions and one SC.W to each address has failed
C29_Witness ==
    /\ DirectedLrIssue
    /\ cur.rd = 15
    /\ hist.sc_count = 4
    /\ read_word(ram_bytes, test_address_1) = test_data
    /\ read_word(ram_bytes, test_address_2) = test_data

\* some mnemonic was executed fewer times than the minimum
BelowMinimum == \E m \in Mnemonics : coverage[m] < MIN_COVERAGE_COUNT

\* the completion step of the random regression
CompleteStep == RDriver("complete") /\ instruction' = "addi" /\ hist'.last = "parked"

====
